---- MODULE Spec2Model ----
(***************************************************************************)
(* Classification session engine of tidy-ur-spotify: the session record,   *)
(* the classify / skip / undo / resume use cases, the JSON progress file,  *)
(* the background playlist threads they start, and the ClassifyView        *)
(* handlers that drive them.                                               *)
(***************************************************************************)
EXTENDS Integers, Sequences, FiniteSets, TLC

\* ------------------------------------------------------------------ bounds
\* Number of liked songs fetched for the run.
NTracks == 3
\* Use-case calls made on the session in one behaviour of Spec.
MaxCalls == 4
\* UI events handled in one behaviour of SpecUI.
MaxEvents == 5
\* Calls made on the playlist synchronizers in one behaviour of SpecPlaylist.
MaxPortCalls == 3
\* Decisions of a session handed to the progress adapter in SpecProgress.
MaxSaved == 3
\* classify_batch calls made, and runs of the application, in one behaviour
\* of SpecClassifier.
MaxBatches == 2
MaxRuns == 2
\* Cache keys built after the first one.
MaxKeyCalls == 2
\* put_many calls made by the threads in one behaviour of SpecCacheSave.
MaxSaves == 2
\* Calls made on the persistent cache in one behaviour of SpecCache.
MaxCacheOps == 4
\* Preload jobs started by one view in one behaviour of SpecPreload.
MaxJobs == 3
\* Use-case calls made in one behaviour of SpecSync.
MaxSyncCalls == 3
\* Calls made on the configuration adapter in one behaviour of SpecConfig.
MaxConfigOps == 3

\* Preload jobs started by the view while requests to the LLM are followed.
MaxCallJobs == 2
\* Liked songs of a run of the pre-analysis page, and coroutines the page starts
\* in one behaviour of SpecAnalysis.
MaxAnalysisTracks == 21
MaxAnalysisRuns == 2

\* ------------------------------------------------------- program constants
PRELOAD_LOOKAHEAD == 20
PRELOAD_BATCH_SIZE == 10
PRE_ANALYSIS_BATCH_SIZE == 10
\* Window sizes below which the compact layout is used.
COMPACT_WIDTH == 980
COMPACT_HEIGHT == 780

\* Theme keys of the run (THEMES).
ThemeKeys == {"ambiance", "lets_dance"}

\* THEMES_DICT, passed to the classifier adapters: theme key -> definition.
THEMES_DICT == << <<"ambiance", "Ambiance">>, <<"lets_dance", "Let's Dance">> >>

\* Window sizes the page can report; 0 stands for "not known yet".
WindowWidths == {0, 900, 1280}
WindowHeights == {0, 700, 900}

\* --------------------------------------------------------------- entities
\* A liked song as fetched; the session engine reads id, name and artist.
\* popularity and album_image_url are optional: <<>> stands for None.
Track(i) == [id |-> i, name |-> <<"name", i>>, artist |-> <<"artist", i>>,
             album |-> <<"album", i>>, popularity |-> <<>>,
             duration_ms |-> 0, release_date |-> "", explicit |-> FALSE,
             album_image_url |-> <<>>]

TrackPool == {Track(i) : i \in 1..NTracks}

FetchedTracks == [i \in 1..NTracks |-> Track(i)]

Range(s) == {s[i] : i \in 1..Len(s)}

\* Decision(track_id, track_name, artist, themes=[], skipped=False)
Decision(track_id, track_name, artist, themes, skipped) ==
    [track_id |-> track_id, track_name |-> track_name, artist |-> artist,
     themes |-> themes, skipped |-> skipped]

\* ClassificationSession(current_index=0, track_ids=[], decisions=[])
ClassificationSession(current_index, track_ids, decisions) ==
    [current_index |-> current_index, track_ids |-> track_ids,
     decisions |-> decisions]

\* Position in session.decisions of the first Decision with this track id
\* (the object the method returns a reference to); 0 stands for None.
decision_for(session, track_id) ==
    LET hits == {i \in 1..Len(session.decisions) :
                    session.decisions[i].track_id = track_id}
    IN  IF hits = {} THEN 0 ELSE CHOOSE i \in hits : \A j \in hits : i <= j

\* add_decision moving the cursor past the next track as well.
add_decision_AdvancesTwo(session, decision) ==
    [session EXCEPT !.decisions = Append(@, decision),
                    !.current_index = @ + 2]

\* add_decision without the cursor advance.
add_decision_NoAdvance(session, decision) ==
    [session EXCEPT !.decisions = Append(@, decision)]

add_decision(session, decision) ==
    [session EXCEPT !.decisions = Append(@, decision),
                    !.current_index = @ + 1]

\* undo_last popping the oldest Decision.
undo_last_PopsFirst(session) ==
    IF session.decisions = <<>> \/ session.current_index <= 0
    THEN [session |-> session, last |-> <<>>]
    ELSE [session |-> [session EXCEPT
                          !.decisions = SubSeq(@, 2, Len(@)),
                          !.current_index = @ - 1],
          last |-> <<session.decisions[1]>>]

\* undo_last popping the Decision without moving the cursor back.
undo_last_KeepsIndex(session) ==
    IF session.decisions = <<>> \/ session.current_index <= 0
    THEN [session |-> session, last |-> <<>>]
    ELSE [session |-> [session EXCEPT
                          !.decisions = SubSeq(@, 1, Len(@) - 1)],
          last |-> <<session.decisions[Len(session.decisions)]>>]

\* Returns the session after the call and the popped Decision: <<d>>, or
\* <<>> for None.
undo_last(session) ==
    IF session.decisions = <<>> \/ session.current_index <= 0
    THEN [session |-> session, last |-> <<>>]
    ELSE [session |-> [session EXCEPT
                          !.decisions = SubSeq(@, 1, Len(@) - 1),
                          !.current_index = @ - 1],
          last |-> <<session.decisions[Len(session.decisions)]>>]

\* --------------------------------------------------------- progress file
\* The file is <<>> when it does not exist and <<doc>> when it holds the
\* JSON document doc.
asdict(d) ==
    [track_id |-> d.track_id, track_name |-> d.track_name,
     artist |-> d.artist, themes |-> d.themes, skipped |-> d.skipped]

JsonProgressAdapter_save(session) ==
    <<[current_index |-> session.current_index,
       track_ids |-> session.track_ids,
       decisions |-> [i \in 1..Len(session.decisions) |->
                         asdict(session.decisions[i])]]>>

\* load that rebuilds each Decision from track_id, track_name and artist
\* alone, leaving themes and skipped at their defaults.
JsonProgressAdapter_load_Defaults(file) ==
    IF file = <<>> THEN <<>>
    ELSE LET data == file[1]
         IN  <<ClassificationSession(
                 data.current_index,
                 data.track_ids,
                 [i \in 1..Len(data.decisions) |->
                     Decision(data.decisions[i].track_id,
                              data.decisions[i].track_name,
                              data.decisions[i].artist,
                              <<>>, FALSE)])>>

\* <<session>>, or <<>> for None.
JsonProgressAdapter_load(file) ==
    IF file = <<>> THEN <<>>
    ELSE LET data == file[1]
         IN  <<ClassificationSession(
                 data.current_index,
                 data.track_ids,
                 [i \in 1..Len(data.decisions) |->
                     Decision(data.decisions[i].track_id,
                              data.decisions[i].track_name,
                              data.decisions[i].artist,
                              data.decisions[i].themes,
                              data.decisions[i].skipped)])>>

\* clear: the file after the call.
JsonProgressAdapter_clear(file) == <<>>

\* -------------------------------------------------------------- use cases
\* A background thread as started: threading.Thread(target, args).start()
Thread(target, theme_key, track_id) ==
    [target |-> target, theme_key |-> theme_key, track_id |-> track_id]

\* execute saving the session before it records the decision.
ClassifyTrackUseCase_execute_SavesFirst(session, file, track, theme_key) ==
    LET existing == decision_for(session, track.id)
        merged == [session EXCEPT !.decisions[existing].themes =
                      IF theme_key \in Range(@) THEN @
                      ELSE Append(@, theme_key)]
        decision == Decision(track.id, track.name, track.artist,
                             <<theme_key>>, FALSE)
        after == IF existing # 0 THEN merged
                 ELSE add_decision(session, decision)
    IN  [session |-> after,
         started |-> <<Thread("add_track", theme_key, track.id)>>,
         file |-> JsonProgressAdapter_save(session),
         result |-> IF existing # 0 THEN <<after.decisions[existing]>>
                    ELSE <<decision>>]

\* execute merging only into a Decision that is the last entry of decisions.
ClassifyTrackUseCase_execute_MergesLastOnly(session, file, track, theme_key) ==
    LET n == Len(session.decisions)
        existing == IF n > 0 /\ session.decisions[n].track_id = track.id
                    THEN n ELSE 0
        merged == [session EXCEPT !.decisions[existing].themes =
                      IF theme_key \in Range(@) THEN @
                      ELSE Append(@, theme_key)]
        decision == Decision(track.id, track.name, track.artist,
                             <<theme_key>>, FALSE)
        after == IF existing # 0 THEN merged
                 ELSE add_decision(session, decision)
    IN  [session |-> after,
         started |-> <<Thread("add_track", theme_key, track.id)>>,
         file |-> JsonProgressAdapter_save(after),
         result |-> IF existing # 0 THEN <<after.decisions[existing]>>
                    ELSE <<decision>>]

\* execute appending theme_key to the existing Decision without looking
\* whether it is there already.
ClassifyTrackUseCase_execute_NoDedup(session, file, track, theme_key) ==
    LET existing == decision_for(session, track.id)
        merged == [session EXCEPT !.decisions[existing].themes =
                      Append(@, theme_key)]
        decision == Decision(track.id, track.name, track.artist,
                             <<theme_key>>, FALSE)
        after == IF existing # 0 THEN merged
                 ELSE add_decision(session, decision)
    IN  [session |-> after,
         started |-> <<Thread("add_track", theme_key, track.id)>>,
         file |-> JsonProgressAdapter_save(after),
         result |-> IF existing # 0 THEN <<after.decisions[existing]>>
                    ELSE <<decision>>]

\* skip leaving the skipped flag at its default.
ClassifyTrackUseCase_skip_FlagUnset(session, file, track) ==
    LET decision == Decision(track.id, track.name, track.artist, <<>>, FALSE)
        after == add_decision(session, decision)
    IN  [session |-> after,
         started |-> <<>>,
         file |-> JsonProgressAdapter_save(after),
         result |-> <<decision>>]

\* skip reusing the Decision a track already has instead of appending one.
ClassifyTrackUseCase_skip_ReusesExisting(session, file, track) ==
    LET existing == decision_for(session, track.id)
        decision == Decision(track.id, track.name, track.artist, <<>>, TRUE)
        after == IF existing # 0 THEN session
                 ELSE add_decision(session, decision)
    IN  [session |-> after,
         started |-> <<>>,
         file |-> JsonProgressAdapter_save(after),
         result |-> IF existing # 0 THEN <<session.decisions[existing]>>
                    ELSE <<decision>>]

\* undo saving the session before it looks at what undo_last returned.
UndoDecisionUseCase_execute_SavesAlways(session, file) ==
    LET undone == undo_last(session)
    IN  IF undone.last = <<>>
        THEN [session |-> undone.session, started |-> <<>>,
              file |-> JsonProgressAdapter_save(undone.session),
              result |-> <<>>]
        ELSE [session |-> undone.session,
              started |-> [i \in 1..Len(undone.last[1].themes) |->
                              Thread("remove_track",
                                     undone.last[1].themes[i],
                                     undone.last[1].track_id)],
              file |-> JsonProgressAdapter_save(undone.session),
              result |-> undone.last]

\* undo that does not save the session.
UndoDecisionUseCase_execute_NoSave(session, file) ==
    LET undone == undo_last(session)
    IN  IF undone.last = <<>>
        THEN [session |-> undone.session, started |-> <<>>,
              file |-> file, result |-> <<>>]
        ELSE [session |-> undone.session,
              started |-> [i \in 1..Len(undone.last[1].themes) |->
                              Thread("remove_track",
                                     undone.last[1].themes[i],
                                     undone.last[1].track_id)],
              file |-> file,
              result |-> undone.last]

\* Each use case returns the session after the call, the progress file after
\* the call, the threads it started (in order) and its return value (<<d>>,
\* or <<>> for None).
ClassifyTrackUseCase_execute(session, file, track, theme_key) ==
    LET existing == decision_for(session, track.id)
        merged == [session EXCEPT !.decisions[existing].themes =
                      IF theme_key \in Range(@) THEN @
                      ELSE Append(@, theme_key)]
        decision == Decision(track.id, track.name, track.artist,
                             <<theme_key>>, FALSE)
        after == IF existing # 0 THEN merged
                 ELSE add_decision(session, decision)
    IN  [session |-> after,
         started |-> <<Thread("add_track", theme_key, track.id)>>,
         file |-> JsonProgressAdapter_save(after),
         result |-> IF existing # 0 THEN <<after.decisions[existing]>>
                    ELSE <<decision>>]

ClassifyTrackUseCase_skip(session, file, track) ==
    LET decision == Decision(track.id, track.name, track.artist, <<>>, TRUE)
        after == add_decision(session, decision)
    IN  [session |-> after,
         started |-> <<>>,
         file |-> JsonProgressAdapter_save(after),
         result |-> <<decision>>]

UndoDecisionUseCase_execute(session, file) ==
    LET undone == undo_last(session)
    IN  IF undone.last = <<>>
        THEN [session |-> undone.session, started |-> <<>>,
              file |-> file, result |-> <<>>]
        ELSE [session |-> undone.session,
              started |-> [i \in 1..Len(undone.last[1].themes) |->
                              Thread("remove_track",
                                     undone.last[1].themes[i],
                                     undone.last[1].track_id)],
              file |-> JsonProgressAdapter_save(undone.session),
              result |-> undone.last]

ResumeSessionUseCase_execute(file, tracks) ==
    LET existing == JsonProgressAdapter_load(file)
    IN  IF existing # <<>> THEN existing[1]
        ELSE ClassificationSession(
                 0, [i \in 1..Len(tracks) |-> tracks[i].id], <<>>)

\* ----------------------------------------------------------------- export
\* "|".join(themes)
JoinThemes(themes) ==
    LET RECURSIVE join(_)
        join(i) == IF i > Len(themes) THEN ""
                   ELSE IF i = Len(themes) THEN themes[i]
                   ELSE themes[i] \o "|" \o join(i + 1)
    IN  join(1)

\* The rows written to export.csv: the header, then one row per Decision.
export_csv(decisions) ==
    <<<<"track_id", "track_name", "artist", "themes", "skipped">>>> \o
    [i \in 1..Len(decisions) |->
        <<decisions[i].track_id, decisions[i].track_name,
          decisions[i].artist, JoinThemes(decisions[i].themes),
          decisions[i].skipped>>]

ExportSessionUseCase_execute(session) == <<export_csv(session.decisions)>>

\* ------------------------------------------------ playlist synchronizers
\* themes[theme_key]["name"] of THEMES_DICT.
ThemeName(theme_key) ==
    IF theme_key = "ambiance" THEN "Ambiance" ELSE "Let's Dance"

\* playlist_name = f"\U0001f3b5 {theme['name']}"; the note sign is written
\* as its code point.
PlaylistName(theme_key) == "U+1F3B5 " \o ThemeName(theme_key)

\* Page sizes asked of the remote service.
PLAYLISTS_PAGE == 50
ITEMS_PAGE == 100

\* The account's playlists on the remote service are a sequence of
\* [name, items]; a playlist's id is its position, items are track ids.
\* One request made through the spotipy client:
SpCall(call, playlist_id, track_id, offset) ==
    [call |-> call, playlist_id |-> playlist_id, track_id |-> track_id,
     offset |-> offset]

\* results["items"] of a paged listing of seq asked at offset.
Page(seq, offset, limit) ==
    SubSeq(seq, offset + 1,
           IF offset + limit < Len(seq) THEN offset + limit ELSE Len(seq))

\* _find_playlist: the id found (0 for None) and the requests made.
find_playlist(playlists, name) ==
    LET RECURSIVE scan(_)
        scan(offset) ==
            LET items == Page(playlists, offset, PLAYLISTS_PAGE)
                call == SpCall("current_user_playlists", 0, 0, offset)
                hits == {i \in 1..Len(items) : items[i].name = name}
            IN  IF items = <<>> THEN [id |-> 0, calls |-> <<call>>]
                ELSE IF hits # {}
                THEN [id |-> offset +
                             (CHOOSE i \in hits : \A j \in hits : i <= j),
                      calls |-> <<call>>]
                ELSE IF offset + PLAYLISTS_PAGE >= Len(playlists)
                THEN [id |-> 0, calls |-> <<call>>]
                ELSE LET rest == scan(offset + PLAYLISTS_PAGE)
                     IN  [id |-> rest.id, calls |-> <<call>> \o rest.calls]
    IN  scan(0)

\* _get_or_create_playlist: the id, the cache and the remote playlists after
\* the call, and the requests made.
get_or_create_playlist(cache, playlists, theme_key) ==
    IF cache[theme_key] # 0
    THEN [id |-> cache[theme_key], cache |-> cache, playlists |-> playlists,
          calls |-> <<>>]
    ELSE LET found == find_playlist(playlists, PlaylistName(theme_key))
         IN  IF found.id # 0
             THEN [id |-> found.id,
                   cache |-> [cache EXCEPT ![theme_key] = found.id],
                   playlists |-> playlists,
                   calls |-> found.calls]
             ELSE [id |-> Len(playlists) + 1,
                   cache |-> [cache EXCEPT ![theme_key] = Len(playlists) + 1],
                   playlists |-> Append(playlists,
                                        [name |-> PlaylistName(theme_key),
                                         items |-> <<>>]),
                   calls |-> found.calls \o
                             <<SpCall("current_user", 0, 0, 0),
                               SpCall("user_playlist_create",
                                      Len(playlists) + 1, 0, 0)>>]

\* _track_in_playlist: the answer and the requests made.
track_in_playlist(playlists, playlist_id, track_id) ==
    LET RECURSIVE scan(_)
        scan(offset) ==
            LET items == Page(playlists[playlist_id].items, offset, ITEMS_PAGE)
                call == SpCall("playlist_items", playlist_id, 0, offset)
            IN  IF items = <<>> THEN [found |-> FALSE, calls |-> <<call>>]
                ELSE IF \E i \in 1..Len(items) : items[i] = track_id
                THEN [found |-> TRUE, calls |-> <<call>>]
                ELSE IF offset + ITEMS_PAGE >= Len(playlists[playlist_id].items)
                THEN [found |-> FALSE, calls |-> <<call>>]
                ELSE LET rest == scan(offset + ITEMS_PAGE)
                     IN  [found |-> rest.found,
                          calls |-> <<call>> \o rest.calls]
    IN  scan(0)

\* add_track adding without the membership pre-check.
SpotifyPlaylistAdapter_add_track_NoPreCheck(cache, playlists, theme_key, track_id) ==
    LET got == get_or_create_playlist(cache, playlists, theme_key)
    IN  [cache |-> got.cache,
         playlists |-> [got.playlists EXCEPT ![got.id].items =
                           Append(@, track_id)],
         calls |-> got.calls \o
                   <<SpCall("playlist_add_items", got.id, track_id, 0)>>]

\* remove_track resolving the playlist when the cache does not hold it.
SpotifyPlaylistAdapter_remove_track_Resolves(cache, playlists, theme_key, track_id) ==
    LET got == get_or_create_playlist(cache, playlists, theme_key)
    IN  [cache |-> got.cache,
         playlists |-> [got.playlists EXCEPT ![got.id].items =
                           SelectSeq(@, LAMBDA t : t # track_id)],
         calls |-> got.calls \o
                   <<SpCall("playlist_remove_all_occurrences_of_items",
                            got.id, track_id, 0)>>]

\* Both methods return the cache and the remote playlists after the call and
\* the requests made, in order.
SpotifyPlaylistAdapter_add_track(cache, playlists, theme_key, track_id) ==
    LET got == get_or_create_playlist(cache, playlists, theme_key)
        member == track_in_playlist(got.playlists, got.id, track_id)
    IN  IF ~member.found
        THEN [cache |-> got.cache,
              playlists |-> [got.playlists EXCEPT ![got.id].items =
                                Append(@, track_id)],
              calls |-> got.calls \o member.calls \o
                        <<SpCall("playlist_add_items", got.id, track_id, 0)>>]
        ELSE [cache |-> got.cache, playlists |-> got.playlists,
              calls |-> got.calls \o member.calls]

SpotifyPlaylistAdapter_remove_track(cache, playlists, theme_key, track_id) ==
    IF cache[theme_key] = 0
    THEN [cache |-> cache, playlists |-> playlists, calls |-> <<>>]
    ELSE [cache |-> cache,
          playlists |-> [playlists EXCEPT ![cache[theme_key]].items =
                            SelectSeq(@, LAMBDA t : t # track_id)],
          calls |-> <<SpCall("playlist_remove_all_occurrences_of_items",
                             cache[theme_key], track_id, 0)>>]

\* DryRunPlaylistAdapter: the list after the call.
DryRunPlaylistAdapter_add_track(added_list, theme_key, track_id) ==
    Append(added_list, <<theme_key, track_id>>)

DryRunPlaylistAdapter_remove_track(removed_list, theme_key, track_id) ==
    Append(removed_list, <<theme_key, track_id>>)

\* A background thread runs its playlist call to the end, having retried
\* after the request that failed.
run_thread_Retries(thread, cache, playlists, fails) ==
    LET done == IF thread.target = "add_track"
                THEN SpotifyPlaylistAdapter_add_track(
                         cache, playlists, thread.theme_key, thread.track_id)
                ELSE SpotifyPlaylistAdapter_remove_track(
                         cache, playlists, thread.theme_key, thread.track_id)
    IN  [cache |-> done.cache, playlists |-> done.playlists,
         calls |-> IF fails THEN <<done.calls[1]>> \o done.calls
                   ELSE done.calls,
         raised |-> fails]

\* threading.Thread(target=playlist.add_track or playlist.remove_track,
\* args=(theme_key, track_id)).run(): the call is made once; with fails its
\* first request to the remote service raises, which ends the thread.
run_thread(thread, cache, playlists, fails) ==
    LET done == IF thread.target = "add_track"
                THEN SpotifyPlaylistAdapter_add_track(
                         cache, playlists, thread.theme_key, thread.track_id)
                ELSE SpotifyPlaylistAdapter_remove_track(
                         cache, playlists, thread.theme_key, thread.track_id)
    IN  IF fails
        THEN [cache |-> cache, playlists |-> playlists,
              calls |-> <<done.calls[1]>>, raised |-> TRUE]
        ELSE [cache |-> done.cache, playlists |-> done.playlists,
              calls |-> done.calls, raised |-> FALSE]

\* ---------------------------------------------------- classifier gateway
\* Suggestion(track_id, theme_key, confidence, reasoning); confidence is
\* written in hundredths.
Suggestion(track_id, theme_key, confidence, reasoning) ==
    [track_id |-> track_id, theme_key |-> theme_key,
     confidence |-> confidence, reasoning |-> reasoning]

\* PROVIDERS[provider]["default_model"]
DefaultModel(provider) ==
    IF provider = "anthropic" THEN "claude-3-haiku-20240307"
    ELSE "gpt-4o-mini"

\* A dict is written as the sequence of its <<key, value>> items, in
\* insertion order.  JsonKeyOrder lists the keys used, in sorted order.
JsonKeyOrder ==
    <<"album", "ambiance", "artist", "duration_ms", "explicit", "id",
      "lets_dance", "model", "name", "popularity", "prompt_hash", "provider",
      "release_date", "themes">>

\* json.dumps(obj) leaving the items in insertion order.
json_dumps_InsertionOrder(obj) == obj

\* json.dumps(obj, sort_keys=True, separators=(",", ":")): the items in the
\* order of their keys.
json_dumps(obj) ==
    LET keys == {obj[i][1] : i \in 1..Len(obj)}
        ordered == SelectSeq(JsonKeyOrder, LAMBDA k : k \in keys)
        value(k) == obj[CHOOSE i \in 1..Len(obj) : obj[i][1] = k][2]
    IN  [i \in 1..Len(ordered) |-> <<ordered[i], value(ordered[i])>>]

\* _sha1(value): the digest is written as the text it is the digest of.
sha1(value) == <<"sha1", value>>

\* build_cache_namespace(provider, model, themes)
build_cache_namespace(provider, model, themes) ==
    sha1(json_dumps(<< <<"provider", provider>>, <<"model", model>>,
                       <<"themes", json_dumps(themes)>>,
                       <<"prompt_hash", sha1("SYSTEM_PROMPT")>> >>))

\* build_track_cache_key leaving duration_ms out of the metadata.
build_track_cache_key_NoDuration(namespace, track) ==
    [namespace |-> namespace, id |-> track.id,
     digest |-> sha1(json_dumps(
         << <<"id", track.id>>, <<"name", track.name>>,
            <<"artist", track.artist>>, <<"album", track.album>>,
            <<"release_date", track.release_date>>,
            <<"explicit", track.explicit>>,
            <<"popularity", track.popularity>> >>))]

\* build_track_cache_key(namespace, track): the three parts of
\* "{namespace}:{track.id}:{digest}".
build_track_cache_key(namespace, track) ==
    [namespace |-> namespace, id |-> track.id,
     digest |-> sha1(json_dumps(
         << <<"id", track.id>>, <<"name", track.name>>,
            <<"artist", track.artist>>, <<"album", track.album>>,
            <<"release_date", track.release_date>>,
            <<"duration_ms", track.duration_ms>>,
            <<"explicit", track.explicit>>,
            <<"popularity", track.popularity>> >>))]

\* Concatenation of the lists of a sequence of lists.
Flatten(lists) ==
    LET RECURSIVE flat(_)
        flat(i) == IF i > Len(lists) THEN <<>> ELSE lists[i] \o flat(i + 1)
    IN  flat(1)

\* What the LLM provider answers to one request: the request fails
\* ("error"), or the text of the answer is not JSON ("not_json"), JSON that
\* is an object and not an array ("json_object"), or a JSON array of
\* suggestion objects, bare ("json_array") or inside a Markdown code fence
\* ("fenced_array").
LlmResponse(kind, items) == [kind |-> kind, items |-> items]

\* parse_suggestions(text): the list returned, or the exception raised on
\* JSON that is not an array of objects.
parse_suggestions(response) ==
    IF response.kind = "not_json"
    THEN [raised |-> FALSE, suggestions |-> <<>>]
    ELSE IF response.kind = "json_object"
    THEN [raised |-> TRUE, suggestions |-> <<>>]
    ELSE [raised |-> FALSE,
          suggestions |-> [i \in 1..Len(response.items) |->
              Suggestion(response.items[i].track_id,
                         response.items[i].suggested_theme,
                         response.items[i].confidence,
                         response.items[i].reasoning)]]

\* The in-memory cache _cache and the persistent cache's _entries are
\* functions whose domain is the set of keys they hold.
\* The cache file is absent (<<>>), holds the JSON object
\* {"entries": entries} (<<entries>>), or is damaged as a whole:
\* "not_json" stands for text that is not JSON (an empty or truncated
\* file, bytes that are not UTF-8), "unreadable" for a file whose read
\* fails, "not_object" for JSON that is not an object or whose "entries" is
\* not an object, "values_not_lists" for entries none of which is a list.
DamagedFile(kind) == <<kind, "damaged">>

DamageKinds == {"not_json", "unreadable", "not_object", "values_not_lists"}

\* The file open() leaves behind before anything is written.
EmptyFile == DamagedFile("not_json")

\* A JSON value float() does not convert, in the place of a confidence.
NotANumber == -1

\* PersistentSuggestionCache._load: _entries after the constructor.
PersistentSuggestionCache_load(file) ==
    IF file = <<>> THEN <<>>
    ELSE IF Len(file) = 2 THEN <<>>
    ELSE file[1]

\* get(key) raises: float() rejects the confidence of a stored item.
PersistentSuggestionCache_get_raises(entries, key) ==
    /\ key \in DOMAIN entries
    /\ \E i \in 1..Len(entries[key]) :
          entries[key][i].confidence = NotANumber

\* PersistentSuggestionCache.get(key)
PersistentSuggestionCache_get(entries, key) ==
    IF key \in DOMAIN entries
    THEN [i \in 1..Len(entries[key]) |->
             Suggestion(entries[key][i].track_id, entries[key][i].theme_key,
                        entries[key][i].confidence,
                        entries[key][i].reasoning)]
    ELSE <<>>

\* put_many writing only the entries it was handed.
PersistentSuggestionCache_put_many_OnlyNew(entries, file, values) ==
    LET changed == {k \in DOMAIN values :
                       /\ values[k] # <<>>
                       /\ (k \notin DOMAIN entries \/ entries[k] # values[k])}
        after == [k \in DOMAIN entries \cup changed |->
                     IF k \in changed THEN values[k] ELSE entries[k]]
    IN  IF changed # {}
        THEN [entries |-> after, file |-> <<[k \in changed |-> values[k]]>>]
        ELSE [entries |-> entries, file |-> file]

\* PersistentSuggestionCache.put_many(values) with _save: _entries and the
\* file after the call.
PersistentSuggestionCache_put_many(entries, file, values) ==
    LET serialized(k) ==
            [i \in 1..Len(values[k]) |->
                [track_id |-> values[k][i].track_id,
                 theme_key |-> values[k][i].theme_key,
                 confidence |-> values[k][i].confidence,
                 reasoning |-> values[k][i].reasoning]]
        changed == {k \in DOMAIN values :
                       /\ values[k] # <<>>
                       /\ (k \notin DOMAIN entries \/ entries[k] # serialized(k))}
        after == [k \in DOMAIN entries \cup changed |->
                     IF k \in changed THEN serialized(k) ELSE entries[k]]
    IN  IF changed # {} THEN [entries |-> after, file |-> <<after>>]
        ELSE [entries |-> entries, file |-> file]

\* _get_cached(tracks)
get_cached(cache, batch) ==
    Flatten([i \in 1..Len(batch) |->
                IF batch[i].id \in DOMAIN cache THEN cache[batch[i].id]
                ELSE <<>>])

\* The first loop of the Anthropic classify_batch: the in-memory cache after
\* the persistent hits, and the tracks left to send.
AnthropicPartition(cache, entries, enabled, namespace, batch) ==
    LET RECURSIVE walk(_, _, _)
        walk(i, c, uncached) ==
            IF i > Len(batch) THEN [cache |-> c, uncached |-> uncached]
            ELSE IF batch[i].id \in DOMAIN c THEN walk(i + 1, c, uncached)
            ELSE LET persisted ==
                         IF enabled
                         THEN PersistentSuggestionCache_get(entries,
                                  build_track_cache_key(namespace, batch[i]))
                         ELSE <<>>
                 IN  IF persisted # <<>>
                     THEN walk(i + 1,
                               [k \in DOMAIN c \cup {batch[i].id} |->
                                   IF k = batch[i].id THEN persisted
                                   ELSE c[k]],
                               uncached)
                     ELSE walk(i + 1, c, Append(uncached, batch[i]))
    IN  walk(1, cache, <<>>)

\* The Anthropic classify_batch sending every track that has no in-memory
\* entry, whatever the persistent cache holds.
AnthropicClassifierAdapter_classify_batch_NoLookup(cache, entries, file, enabled, namespace, batch, response) ==
    LET part == AnthropicPartition(cache, entries, FALSE, namespace, batch)
        uncached == part.uncached
        parsed == parse_suggestions(response)
        ids == {uncached[i].id : i \in 1..Len(uncached)}
        filled == [k \in DOMAIN part.cache \cup ids |->
                      IF k \in ids
                      THEN SelectSeq(parsed.suggestions,
                                     LAMBDA x : x.track_id = k)
                      ELSE part.cache[k]]
        to_persist ==
            LET keep == {i \in 1..Len(uncached) : filled[uncached[i].id] # <<>>}
            IN  [k \in {build_track_cache_key(namespace, uncached[i]) :
                            i \in keep} |->
                    filled[k.id]]
        put == IF enabled
               THEN PersistentSuggestionCache_put_many(entries, file,
                                                       to_persist)
               ELSE [entries |-> entries, file |-> file]
    IN  IF batch = <<>>
        THEN [cache |-> cache, entries |-> entries, file |-> file,
              sent |-> <<>>, raised |-> FALSE, result |-> <<>>]
        ELSE IF uncached = <<>>
        THEN [cache |-> part.cache, entries |-> entries, file |-> file,
              sent |-> <<>>, raised |-> FALSE,
              result |-> get_cached(part.cache, batch)]
        ELSE IF response.kind = "error" \/ parsed.raised
        THEN [cache |-> part.cache, entries |-> entries, file |-> file,
              sent |-> uncached, raised |-> TRUE, result |-> <<>>]
        ELSE [cache |-> filled, entries |-> put.entries, file |-> put.file,
              sent |-> uncached, raised |-> FALSE,
              result |-> get_cached(filled, batch)]

\* The Anthropic classify_batch returns the in-memory cache, the persistent
\* entries and the cache file after the call, the tracks sent to the LLM
\* (<<>> when no request is made), whether the call raised, and the list
\* returned.
AnthropicClassifierAdapter_classify_batch(cache, entries, file, enabled, namespace, batch, response) ==
    LET part == AnthropicPartition(cache, entries, enabled, namespace, batch)
        uncached == part.uncached
        parsed == parse_suggestions(response)
        ids == {uncached[i].id : i \in 1..Len(uncached)}
        filled == [k \in DOMAIN part.cache \cup ids |->
                      IF k \in ids
                      THEN SelectSeq(parsed.suggestions,
                                     LAMBDA x : x.track_id = k)
                      ELSE part.cache[k]]
        to_persist ==
            LET keep == {i \in 1..Len(uncached) : filled[uncached[i].id] # <<>>}
            IN  [k \in {build_track_cache_key(namespace, uncached[i]) :
                            i \in keep} |->
                    filled[k.id]]
        put == IF enabled
               THEN PersistentSuggestionCache_put_many(entries, file,
                                                       to_persist)
               ELSE [entries |-> entries, file |-> file]
    IN  IF batch = <<>>
        THEN [cache |-> cache, entries |-> entries, file |-> file,
              sent |-> <<>>, raised |-> FALSE, result |-> <<>>]
        ELSE IF uncached = <<>>
        THEN [cache |-> part.cache, entries |-> entries, file |-> file,
              sent |-> <<>>, raised |-> FALSE,
              result |-> get_cached(part.cache, batch)]
        ELSE IF response.kind = "error" \/ parsed.raised
        THEN [cache |-> part.cache, entries |-> entries, file |-> file,
              sent |-> uncached, raised |-> TRUE, result |-> <<>>]
        ELSE [cache |-> filled, entries |-> put.entries, file |-> put.file,
              sent |-> uncached, raised |-> FALSE,
              result |-> get_cached(filled, batch)]

\* The Anthropic classify_batch from the answer of the LLM on: the
\* in-memory cache, the persistent entries and the cache file after the
\* call and whether it raised, for the tracks uncached that were sent.
AnthropicAfterAnswer(cache, entries, file, enabled, namespace, uncached, response) ==
    LET parsed == parse_suggestions(response)
        ids == {uncached[i].id : i \in 1..Len(uncached)}
        filled == [k \in DOMAIN cache \cup ids |->
                      IF k \in ids
                      THEN SelectSeq(parsed.suggestions,
                                     LAMBDA x : x.track_id = k)
                      ELSE cache[k]]
        to_persist ==
            LET keep == {i \in 1..Len(uncached) : filled[uncached[i].id] # <<>>}
            IN  [k \in {build_track_cache_key(namespace, uncached[i]) :
                            i \in keep} |->
                    filled[k.id]]
        put == IF enabled
               THEN PersistentSuggestionCache_put_many(entries, file,
                                                       to_persist)
               ELSE [entries |-> entries, file |-> file]
    IN  IF response.kind = "error" \/ parsed.raised
        THEN [cache |-> cache, entries |-> entries, file |-> file,
              raised |-> TRUE]
        ELSE [cache |-> filled, entries |-> put.entries, file |-> put.file,
              raised |-> FALSE]

\* The OpenAI adapter has no persistent cache: its classify_batch returns the
\* in-memory cache after the call, the tracks sent, whether the call raised,
\* and the list returned.
OpenAIClassifierAdapter_classify_batch(cache, batch, response) ==
    LET uncached == SelectSeq(batch, LAMBDA t : t.id \notin DOMAIN cache)
        parsed == parse_suggestions(response)
        ids == {parsed.suggestions[i].track_id :
                   i \in 1..Len(parsed.suggestions)}
        filled == [k \in DOMAIN cache \cup ids |->
                      (IF k \in DOMAIN cache THEN cache[k] ELSE <<>>) \o
                      SelectSeq(parsed.suggestions,
                                LAMBDA x : x.track_id = k)]
    IN  IF batch = <<>>
        THEN [cache |-> cache, sent |-> <<>>, raised |-> FALSE,
              result |-> <<>>]
        ELSE IF uncached = <<>>
        THEN [cache |-> cache, sent |-> <<>>, raised |-> FALSE,
              result |-> get_cached(cache, batch)]
        ELSE IF response.kind = "error" \/ parsed.raised
        THEN [cache |-> cache, sent |-> uncached, raised |-> TRUE,
              result |-> <<>>]
        ELSE [cache |-> filled, sent |-> uncached, raised |-> FALSE,
              result |-> get_cached(filled, batch)]

\* ------------------------------------------------------------------ state
VARIABLES
    tracks,        \* the liked songs fetched for the run, in fetch order
    session,       \* the ClassificationSession in memory
    progress_file, \* progress.json
    threads,       \* every background playlist thread started, in order
    hist,          \* the use-case calls made: arguments, session and file
                   \* before the call, threads started, return value
    is_compact_layout,  \* ClassifyView.is_compact_layout
    analysis_job_id,    \* ClassifyView._analysis_job_id
    analysis_track_ids, \* ClassifyView._analysis_track_ids
    analysis_running,   \* ClassifyView._analysis_running
    analysis_error,     \* ClassifyView._analysis_error
    export_file,   \* export.csv: <<>> or <<rows>>
    finish_count,  \* calls of ClassifyView._finish made by the view
    events,        \* UI events the views have handled
    audit_mode,       \* start_session(audit_mode): the dry-run adapter is used
    playlist_cache,   \* SpotifyPlaylistAdapter._playlist_cache: theme key ->
                      \* playlist id, 0 when the key is absent
    remote_playlists, \* the account's playlists on the remote service
    added,            \* DryRunPlaylistAdapter.added
    removed,          \* DryRunPlaylistAdapter.removed
    port_calls,       \* the calls made on the synchronizers: arguments, state
                      \* before the call, requests made to the remote service
    screen,           \* what the window shows: "classify" (a ClassifyView),
                      \* "pre_analysis", "onboarding", or "closed"
    progress_removed_by, \* the handlers that have deleted progress.json
    loaded,           \* what the last JsonProgressAdapter.load returned:
                      \* <<session>>, or <<>> for None
    saved,            \* the session last passed to save and not cleared
                      \* since: <<session>>, or <<>>
    store_ops,        \* the last two calls made on the progress adapter
    provider,         \* cfg["llm_provider"] of the run
    run,              \* the number of the run (process) of the application
    suggestion_cache, \* the classifier adapter's _cache
    cache_entries,    \* PersistentSuggestionCache._entries
    cache_file,       \* classification_cache.json: <<>> or <<entries>>
    batch_calls,      \* the classify_batch calls made: run, batch, state
                      \* before the call, answer of the LLM, tracks sent,
                      \* outcome
    temp_file,        \* classification_cache.json.tmp, as cache_file
    save_pc,          \* where each thread is in put_many and _save
    save_payload,     \* the payload each thread has serialized: <<>> or
                      \* <<entries>>
    save_handle,      \* the file each thread's open handle refers to:
                      \* "none", "temp", "cache", or "unlinked"
    save_contents,    \* the content the cache file had at the start and
                      \* every payload serialized since
    save_count,       \* put_many calls made by the threads
    preload_jobs,     \* the _run thread of each preload job, by job id:
                      \* where it is, its loop index, its batch
    stale_steps,      \* the steps taken by a job after a newer job was
                      \* started: <<job id, step>>
    thread_runs,      \* the background threads that have run their call:
                      \* index in threads, requests made, whether the call
                      \* raised, state before and after
    config_file,      \* config.json: <<>> or <<cfg>>
    keyring,          \* the passwords the OS keychain holds for the
                      \* service, by field; "" when it holds none
    config_ops,       \* the calls made on the JsonConfigAdapter: arguments,
                      \* file and keychain before and after, outcome
    thread_pc,        \* where each background playlist thread is in its
                      \* call, by index in threads
    thread_playlist_id, \* the playlist id each thread holds in a local
                      \* variable, 0 when it holds none
    creates,          \* user_playlist_create requests made, by theme key
    in_flight,        \* the tracks each preload job has sent to the LLM and
                      \* waits the answer for, by job id; <<>> when none
    sent_count,       \* the requests to the LLM each track was part of in
                      \* this process, by track id
    analysis_state,   \* analysis_state of the pre-analysis page
    resume_index,     \* resume_index of the pre-analysis page
    analysis_runs,    \* the coroutines running _run_analysis, in start order
    cache_ops,        \* the calls made on the PersistentSuggestionCache:
                      \* arguments, _entries and file before, outcome
    key_args,         \* the arguments of the cache key builders: provider,
                      \* model, themes, track
    key_calls         \* the last two keys built, with their arguments

sessionVars == <<tracks, session, progress_file, threads, hist>>

viewVars == <<is_compact_layout, analysis_job_id, analysis_track_ids,
              analysis_running, analysis_error, export_file, finish_count,
              events>>

playlistVars == <<audit_mode, playlist_cache, remote_playlists, added, removed,
                  port_calls>>

appVars == <<screen, progress_removed_by>>

storeVars == <<loaded, saved, store_ops>>

classifierVars == <<provider, run, suggestion_cache, cache_entries,
                    cache_file, batch_calls>>

keyVars == <<key_args, key_calls>>

saveVars == <<temp_file, save_pc, save_payload, save_handle, save_contents,
              save_count>>

preloadVars == <<preload_jobs, stale_steps>>

configVars == <<config_file, keyring, config_ops>>

stepVars == <<thread_pc, thread_playlist_id, creates>>

callVars == <<in_flight, sent_count>>

runnerVars == <<analysis_state, resume_index, analysis_runs>>

\* The state of the background jobs and of the components beneath the
\* adapters.
infraVars == <<keyVars, saveVars, cache_ops, preloadVars, thread_runs,
              configVars,
              stepVars,
              callVars,
              runnerVars>>

\* The adapters' own state.
portVars == <<playlistVars, storeVars, classifierVars, infraVars>>

\* No cache key has been built.
NoKeyCalls ==
    /\ key_args = [provider |-> "openai", model |-> DefaultModel("openai"),
                   themes |-> THEMES_DICT, track |-> Track(1)]
    /\ key_calls = <<>>

\* The threads that call the classifier: the preload jobs of the view.
SaveThreads == {1, 2}

\* No thread is saving the cache.
NoSaves ==
    /\ temp_file = <<>>
    /\ save_pc = [t \in SaveThreads |-> "idle"]
    /\ save_payload = [t \in SaveThreads |-> <<>>]
    /\ save_handle = [t \in SaveThreads |-> "none"]
    /\ save_contents = {}
    /\ save_count = 0

\* The components beneath the adapters have not been used.
NoPreloadJobs == preload_jobs = <<>> /\ stale_steps = {}

\* _SECRET_FIELDS
SECRET_FIELDS == {"spotify_client_secret", "llm_api_key"}

\* No configuration has been saved.
NoConfig ==
    /\ config_file = <<>>
    /\ keyring = [field \in SECRET_FIELDS |-> ""]
    /\ config_ops = <<>>

\* The background threads a run can start: one per decide, one per theme of
\* the Decision an undo pops.
ThreadIds == 1..(2 * MaxSyncCalls)

\* No background thread has taken a step.
NoThreadSteps ==
    /\ thread_pc = [i \in ThreadIds |-> "start"]
    /\ thread_playlist_id = [i \in ThreadIds |-> 0]
    /\ creates = [k \in ThemeKeys |-> 0]

\* No request to the LLM has been made.
NoRequests ==
    /\ in_flight = [job \in 1..MaxJobs |-> <<>>]
    /\ sent_count = [id \in 1..NTracks |-> 0]

\* analysis_state as launch_classification builds it.
NewAnalysisState(index) ==
    [running |-> FALSE, paused |-> FALSE, cancel_requested |-> FALSE,
     processed_ids |-> <<>>, current_ids |-> <<>>, next_index |-> index,
     batch_done |-> 0, batch_total |-> 0, active_batch |-> 0,
     has_run |-> FALSE, completed |-> FALSE]

\* No pre-analysis page has been built.
NoAnalysis ==
    /\ analysis_state = NewAnalysisState(0)
    /\ resume_index = 0
    /\ analysis_runs = <<>>

InfraIdle ==
    /\ NoKeyCalls
    /\ NoSaves
    /\ cache_ops = <<>>
    /\ NoPreloadJobs
    /\ thread_runs = <<>>
    /\ NoConfig
    /\ NoThreadSteps
    /\ NoRequests
    /\ NoAnalysis

\* A classifier adapter built in the first run, with no cache file.
NoClassifierCalls ==
    /\ provider = "openai"
    /\ run = 1
    /\ suggestion_cache = <<>>
    /\ cache_entries = <<>>
    /\ cache_file = <<>>
    /\ batch_calls = <<>>

vars == <<sessionVars, viewVars, portVars, appVars>>

\* A progress adapter on which nothing has been called.
NoStoreCalls ==
    /\ loaded = <<>>
    /\ saved = <<>>
    /\ store_ops = <<>>

\* A process that has built no playlist synchronizer yet.
NoSynchronizer ==
    /\ audit_mode = FALSE
    /\ playlist_cache = [k \in ThemeKeys |-> 0]
    /\ remote_playlists = <<>>
    /\ added = <<>>
    /\ removed = <<>>
    /\ port_calls = <<>>

\* One record of hist.
Call(op, track_id, theme_key, out) ==
    [op |-> op, track_id |-> track_id, theme_key |-> theme_key,
     before |-> session, file_before |-> progress_file,
     threads_before |-> Len(threads),
     started |-> out.started, result |-> out.result]

\* The effect of one use-case call with outcome out.
Apply(op, track_id, theme_key, out) ==
    /\ session' = out.session
    /\ progress_file' = out.file
    /\ threads' = threads \o out.started
    /\ hist' = Append(hist, Call(op, track_id, theme_key, out))
    /\ UNCHANGED tracks

\* ------------------------------------------------ the use cases, called
\* directly on a fresh session
Init ==
    /\ tracks = FetchedTracks
    /\ progress_file = <<>>
    /\ session = ResumeSessionUseCase_execute(<<>>, FetchedTracks)
    /\ threads = <<>>
    /\ hist = <<>>
    /\ is_compact_layout = FALSE
    /\ analysis_job_id = 0
    /\ analysis_track_ids = <<>>
    /\ analysis_running = FALSE
    /\ analysis_error = ""
    /\ export_file = <<>>
    /\ finish_count = 0
    /\ events = 0
    /\ screen = "classify"
    /\ progress_removed_by = {}
    /\ NoStoreCalls
    /\ NoClassifierCalls
    /\ InfraIdle
    /\ NoSynchronizer

\* decide(session, track, theme_key)
Decide(track, theme_key) ==
    /\ Len(hist) < MaxCalls
    /\ Apply("decide", track.id, theme_key,
             ClassifyTrackUseCase_execute(session, progress_file, track,
                                          theme_key))
    /\ UNCHANGED <<viewVars, portVars, appVars>>

\* skip(session, track)
Skip(track) ==
    /\ Len(hist) < MaxCalls
    /\ Apply("skip", track.id, "",
             ClassifyTrackUseCase_skip(session, progress_file, track))
    /\ UNCHANGED <<viewVars, portVars, appVars>>

\* undo(session)
Undo ==
    /\ Len(hist) < MaxCalls
    /\ Apply("undo", 0, "",
             UndoDecisionUseCase_execute(session, progress_file))
    /\ UNCHANGED <<viewVars, portVars, appVars>>

\* resume_or_start(tracks): the session is dropped and obtained again from
\* the progress file.
Resume ==
    /\ Len(hist) < MaxCalls
    /\ Apply("resume", 0, "",
             [session |-> ResumeSessionUseCase_execute(progress_file, tracks),
              file |-> progress_file, started |-> <<>>, result |-> <<>>])
    /\ UNCHANGED <<viewVars, portVars, appVars>>

Next ==
    \/ \E track \in TrackPool, theme_key \in ThemeKeys :
          Decide(track, theme_key)
    \/ \E track \in TrackPool : Skip(track)
    \/ Undo
    \/ Resume

Spec == Init /\ [][Next]_vars

\* ----------------------------------------------------------- ClassifyView
\* _apply_layout_flags: the compact layout for a window of this size.
apply_layout_flags(width, height) ==
    \/ (width > 0 /\ width < COMPACT_WIDTH)
    \/ (height > 0 /\ height < COMPACT_HEIGHT)

\* _finish: the automatic export, in a view that has made count of them.
finish(count, s) ==
    /\ export_file' = ExportSessionUseCase_execute(s)
    /\ finish_count' = count + 1

\* _refresh_display for the session s, in a view that has made count
\* automatic exports; of its writes to the labels nothing is kept.
refresh_display(count, s) ==
    IF s.current_index >= Len(tracks)
    THEN finish(count, s)
    ELSE /\ export_file' = export_file
         /\ finish_count' = count

\* The ids of fetched[start:end] in _preload_llm: the look-ahead window of a
\* session whose cursor is at start.
preload_batch(fetched, start) ==
    LET end == IF start + PRELOAD_LOOKAHEAD < Len(fetched)
               THEN start + PRELOAD_LOOKAHEAD ELSE Len(fetched)
    IN  [i \in 1..(IF end > start THEN end - start ELSE 0) |->
            fetched[start + i].id]

\* _preload_llm up to the start of its thread, for a view whose job counter
\* is job_id and whose session is s.
preload_llm(job_id, s) ==
    /\ analysis_job_id' = job_id + 1
    /\ analysis_track_ids' = preload_batch(tracks, s.current_index)
    /\ analysis_running' = TRUE
    /\ analysis_error' = ""

\* The first ClassifyView of the run, built with no progress file.
InitUI ==
    /\ \E n \in 1..NTracks : tracks = SubSeq(FetchedTracks, 1, n)
    /\ progress_file = <<>>
    /\ session = ResumeSessionUseCase_execute(<<>>, tracks)
    /\ threads = <<>>
    /\ hist = <<>>
    /\ \E width \in WindowWidths, height \in WindowHeights :
          is_compact_layout = apply_layout_flags(width, height)
    /\ analysis_job_id = 1
    /\ analysis_track_ids = preload_batch(tracks, session.current_index)
    /\ analysis_running = TRUE
    /\ analysis_error = ""
    /\ export_file = <<>>
    /\ finish_count = 0
    /\ events = 0
    /\ screen = "classify"
    /\ progress_removed_by = {}
    /\ NoStoreCalls
    /\ NoClassifierCalls
    /\ InfraIdle
    /\ NoSynchronizer

\* _decide(theme_key)
UiDecide(theme_key) ==
    /\ events < MaxEvents
    /\ screen = "classify"
    /\ IF session.current_index >= Len(tracks)
       THEN UNCHANGED vars
       ELSE LET track == tracks[session.current_index + 1]
                out == ClassifyTrackUseCase_execute(session, progress_file,
                                                    track, theme_key)
            IN  /\ Apply("decide", track.id, theme_key, out)
                /\ refresh_display(finish_count, out.session)
                /\ preload_llm(analysis_job_id, out.session)
                /\ events' = events + 1
                /\ UNCHANGED <<is_compact_layout, portVars, appVars>>

\* _skip()
UiSkip ==
    /\ events < MaxEvents
    /\ screen = "classify"
    /\ IF session.current_index >= Len(tracks)
       THEN UNCHANGED vars
       ELSE LET track == tracks[session.current_index + 1]
                out == ClassifyTrackUseCase_skip(session, progress_file,
                                                 track)
            IN  /\ Apply("skip", track.id, "", out)
                /\ refresh_display(finish_count, out.session)
                /\ preload_llm(analysis_job_id, out.session)
                /\ events' = events + 1
                /\ UNCHANGED <<is_compact_layout, portVars, appVars>>

\* _undo()
UiUndo ==
    /\ events < MaxEvents
    /\ screen = "classify"
    /\ LET out == UndoDecisionUseCase_execute(session, progress_file)
       IN  /\ Apply("undo", 0, "", out)
           /\ refresh_display(finish_count, out.session)
           /\ preload_llm(analysis_job_id, out.session)
           /\ events' = events + 1
           /\ UNCHANGED <<is_compact_layout, portVars, appVars>>

\* handle_resize: the window now has this size.
HandleResize(width, height) ==
    /\ events < MaxEvents
    /\ screen = "classify"
    /\ is_compact_layout' = apply_layout_flags(width, height)
    /\ IF is_compact_layout' # is_compact_layout
       THEN /\ refresh_display(finish_count, session)
            /\ events' = events + 1
       ELSE UNCHANGED <<export_file, finish_count, events>>
    /\ UNCHANGED <<sessionVars, analysis_job_id, analysis_track_ids,
                   analysis_running, analysis_error, portVars, appVars>>

\* _export(): the Export CSV button.
UiExport ==
    /\ events < MaxEvents
    /\ screen = "classify"
    /\ export_file' = ExportSessionUseCase_execute(session)
    /\ events' = events + 1
    /\ UNCHANGED <<sessionVars, is_compact_layout, analysis_job_id,
                   analysis_track_ids, analysis_running, analysis_error,
                   finish_count, portVars, appVars>>

\* The view is left, if one is shown (Pause & Save, or Back to pre-analysis),
\* and a new ClassifyView is built over the same tracks:
\* ClassifyView.__init__.
Reopen(width, height) ==
    /\ events < MaxEvents
    /\ screen' = "classify"
    /\ UNCHANGED progress_removed_by
    /\ is_compact_layout' = apply_layout_flags(width, height)
    /\ LET s == ResumeSessionUseCase_execute(progress_file, tracks)
       IN  /\ session' = s
           /\ refresh_display(0, s)
           /\ preload_llm(0, s)
    /\ events' = events + 1
    /\ UNCHANGED <<tracks, progress_file, threads, hist, portVars>>

\* clear_cache(include_progress) as far as progress.json goes: the file
\* after the call.
clear_cache(include_progress, file) ==
    IF include_progress THEN <<>> ELSE file

\* The handlers that have deleted progress.json, after handler has run on
\* the file before and left the file after.
RemovedBy(handler, before, after) ==
    IF before # <<>> /\ after = <<>>
    THEN progress_removed_by \cup {handler}
    ELSE progress_removed_by

\* _stop(), confirmed in its dialog: Stop & Clear.
UiStop ==
    /\ events < MaxEvents
    /\ screen = "classify"
    /\ progress_file' = <<>>
    /\ progress_removed_by' = RemovedBy("_stop", progress_file, <<>>)
    /\ screen' = "closed"
    /\ events' = events + 1
    /\ UNCHANGED <<tracks, session, threads, hist, is_compact_layout,
                   analysis_job_id, analysis_track_ids, analysis_running,
                   analysis_error, export_file, finish_count, portVars>>

\* Back to pre-analysis: on_back_to_step2.
BackToPreAnalysis ==
    /\ events < MaxEvents
    /\ screen = "classify"
    /\ screen' = "pre_analysis"
    /\ events' = events + 1
    /\ UNCHANGED <<sessionVars, is_compact_layout, analysis_job_id,
                   analysis_track_ids, analysis_running, analysis_error,
                   export_file, finish_count, portVars,
                   progress_removed_by>>

\* on_disconnect, confirmed in its dialog, on the pre-analysis page.
Disconnect ==
    /\ events < MaxEvents
    /\ screen = "pre_analysis"
    /\ progress_file' = clear_cache(TRUE, progress_file)
    /\ progress_removed_by' =
          RemovedBy("on_disconnect", progress_file, progress_file')
    /\ screen' = "onboarding"
    /\ events' = events + 1
    /\ UNCHANGED <<tracks, session, threads, hist, is_compact_layout,
                   analysis_job_id, analysis_track_ids, analysis_running,
                   analysis_error, export_file, finish_count, portVars>>

\* Edit configuration on the pre-analysis page, then _on_clear_cache of the
\* setup wizard.
SetupClearCache ==
    /\ events < MaxEvents
    /\ screen = "pre_analysis"
    /\ progress_file' = clear_cache(FALSE, progress_file)
    /\ progress_removed_by' =
          RemovedBy("_on_clear_cache", progress_file, progress_file')
    /\ screen' = "onboarding"
    /\ events' = events + 1
    /\ UNCHANGED <<tracks, session, threads, hist, is_compact_layout,
                   analysis_job_id, analysis_track_ids, analysis_running,
                   analysis_error, export_file, finish_count, portVars>>

NextUI ==
    \/ \E theme_key \in ThemeKeys : UiDecide(theme_key)
    \/ UiSkip
    \/ UiUndo
    \/ \E width \in WindowWidths, height \in WindowHeights :
          HandleResize(width, height)
    \/ UiExport
    \/ \E width \in WindowWidths, height \in WindowHeights :
          Reopen(width, height)
    \/ UiStop
    \/ BackToPreAnalysis
    \/ Disconnect
    \/ SetupClearCache

SpecUI == InitUI /\ [][NextUI]_vars

\* ------------------------------- the playlist synchronizers, called one
\* call after the other
\* Track ids passed to the synchronizers.
PortTrackIds == {1, 2}

\* What the account can hold before the run: playlists of an earlier run or
\* of the user, with or without tracks.
RemoteAccounts ==
    { <<>>,
      <<[name |-> PlaylistName("ambiance"), items |-> <<>>]>>,
      <<[name |-> PlaylistName("ambiance"), items |-> <<1>>]>>,
      <<[name |-> "Road trip", items |-> <<1>>],
        [name |-> PlaylistName("lets_dance"), items |-> <<2, 1>>]>> }

\* One record of port_calls.
PortCall(op, theme_key, track_id, calls) ==
    [op |-> op, theme_key |-> theme_key, track_id |-> track_id,
     audit_mode |-> audit_mode, cache_before |-> playlist_cache,
     playlists_before |-> remote_playlists, added_before |-> added,
     removed_before |-> removed, calls |-> calls]

InitPlaylist ==
    /\ tracks = FetchedTracks
    /\ progress_file = <<>>
    /\ session = ResumeSessionUseCase_execute(<<>>, FetchedTracks)
    /\ threads = <<>>
    /\ hist = <<>>
    /\ is_compact_layout = FALSE
    /\ analysis_job_id = 0
    /\ analysis_track_ids = <<>>
    /\ analysis_running = FALSE
    /\ analysis_error = ""
    /\ export_file = <<>>
    /\ finish_count = 0
    /\ events = 0
    /\ screen = "classify"
    /\ progress_removed_by = {}
    /\ NoStoreCalls
    /\ NoClassifierCalls
    /\ InfraIdle
    /\ audit_mode \in BOOLEAN
    /\ playlist_cache = [k \in ThemeKeys |-> 0]
    /\ remote_playlists \in RemoteAccounts
    /\ added = <<>>
    /\ removed = <<>>
    /\ port_calls = <<>>

\* playlist.add_track(theme_key, track_id) on the synchronizer of the session.
AddTrack(theme_key, track_id) ==
    /\ Len(port_calls) < MaxPortCalls
    /\ IF audit_mode
       THEN /\ added' = DryRunPlaylistAdapter_add_track(added, theme_key,
                                                        track_id)
            /\ port_calls' = Append(port_calls,
                  PortCall("add_track", theme_key, track_id, <<>>))
            /\ UNCHANGED <<playlist_cache, remote_playlists>>
       ELSE LET out == SpotifyPlaylistAdapter_add_track(
                           playlist_cache, remote_playlists, theme_key,
                           track_id)
            IN  /\ playlist_cache' = out.cache
                /\ remote_playlists' = out.playlists
                /\ port_calls' = Append(port_calls,
                      PortCall("add_track", theme_key, track_id, out.calls))
                /\ UNCHANGED added
    /\ UNCHANGED <<sessionVars, viewVars, appVars, storeVars, classifierVars,
                   infraVars,
                   audit_mode, removed>>

\* playlist.remove_track(theme_key, track_id)
RemoveTrack(theme_key, track_id) ==
    /\ Len(port_calls) < MaxPortCalls
    /\ IF audit_mode
       THEN /\ removed' = DryRunPlaylistAdapter_remove_track(removed,
                                                             theme_key,
                                                             track_id)
            /\ port_calls' = Append(port_calls,
                  PortCall("remove_track", theme_key, track_id, <<>>))
            /\ UNCHANGED <<playlist_cache, remote_playlists>>
       ELSE LET out == SpotifyPlaylistAdapter_remove_track(
                           playlist_cache, remote_playlists, theme_key,
                           track_id)
            IN  /\ playlist_cache' = out.cache
                /\ remote_playlists' = out.playlists
                /\ port_calls' = Append(port_calls,
                      PortCall("remove_track", theme_key, track_id,
                               out.calls))
                /\ UNCHANGED removed
    /\ UNCHANGED <<sessionVars, viewVars, appVars, storeVars, classifierVars,
                   infraVars,
                   audit_mode, added>>

\* start_session(audit_mode), after Back to pre-analysis: a new synchronizer
\* is built in the same process.
StartSession(mode) ==
    /\ Len(port_calls) < MaxPortCalls
    /\ audit_mode' = mode
    /\ playlist_cache' = [k \in ThemeKeys |-> 0]
    /\ added' = <<>>
    /\ removed' = <<>>
    /\ port_calls' = Append(port_calls, PortCall("start_session", "", 0, <<>>))
    /\ UNCHANGED <<sessionVars, viewVars, appVars, storeVars, classifierVars,
                   infraVars,
                   remote_playlists>>

NextPlaylist ==
    \/ \E theme_key \in ThemeKeys, track_id \in PortTrackIds :
          AddTrack(theme_key, track_id)
    \/ \E theme_key \in ThemeKeys, track_id \in PortTrackIds :
          RemoveTrack(theme_key, track_id)
    \/ \E mode \in BOOLEAN : StartSession(mode)

SpecPlaylist == InitPlaylist /\ [][NextPlaylist]_vars

\* --------------------------------- the progress adapter, called directly
\* A process that shows no ClassifyView.
NoView ==
    /\ is_compact_layout = FALSE
    /\ analysis_job_id = 0
    /\ analysis_track_ids = <<>>
    /\ analysis_running = FALSE
    /\ analysis_error = ""
    /\ export_file = <<>>
    /\ finish_count = 0
    /\ events = 0
    /\ screen = "classify"
    /\ progress_removed_by = {}

\* Decisions a saved session can hold: skipped, one theme, several themes.
SavedDecisionPool ==
    {Decision(t.id, t.name, t.artist, themes, skipped) :
        t \in {Track(1), Track(2)},
        <<themes, skipped>> \in {<< <<>>, TRUE >>,
                      << <<"ambiance">>, FALSE >>,
                      << <<"lets_dance", "ambiance">>, FALSE >>}}

\* The sessions handed to save: any current_index, track_ids and decisions.
SavedSessions ==
    {ClassificationSession(current_index, track_ids, decisions) :
        current_index \in 0..MaxSaved,
        track_ids \in {<<>>, <<1, 2>>},
        decisions \in UNION {[1..n -> SavedDecisionPool] : n \in 0..MaxSaved}}

\* The last two calls, after op.
StoreOps(op) ==
    IF store_ops = <<>> THEN <<op>> ELSE <<store_ops[Len(store_ops)], op>>

InitProgress ==
    /\ tracks = FetchedTracks
    /\ session \in SavedSessions
    /\ progress_file = <<>>
    /\ threads = <<>>
    /\ hist = <<>>
    /\ NoView
    /\ NoSynchronizer
    /\ NoStoreCalls
    /\ NoClassifierCalls
    /\ InfraIdle

\* progress.save(session)
ProgressSave ==
    /\ progress_file' = JsonProgressAdapter_save(session)
    /\ saved' = <<session>>
    /\ store_ops' = StoreOps("save")
    /\ UNCHANGED <<tracks, session, threads, hist, viewVars, playlistVars,
                   classifierVars, infraVars, appVars,
                   loaded>>

\* progress.load()
ProgressLoad ==
    /\ loaded' = JsonProgressAdapter_load(progress_file)
    /\ store_ops' = StoreOps("load")
    /\ UNCHANGED <<sessionVars, viewVars, playlistVars, classifierVars,
                   infraVars, appVars, saved>>

\* progress.clear()
ProgressClear ==
    /\ progress_file' = JsonProgressAdapter_clear(progress_file)
    /\ saved' = <<>>
    /\ store_ops' = StoreOps("clear")
    /\ UNCHANGED <<tracks, session, threads, hist, viewVars, playlistVars,
                   classifierVars, infraVars, appVars,
                   loaded>>

NextProgress ==
    \/ ProgressSave
    \/ ProgressLoad
    \/ ProgressClear

SpecProgress == InitProgress /\ [][NextProgress]_vars

\* ------------------------------- the classifier adapters, called directly
\* TIDY_SPOTIFY_DISABLE_PERSISTENT_CACHE is left unset.
PERSISTENT_CACHE_ENABLED == TRUE

Providers == {"openai", "anthropic"}

\* self._namespace of the Anthropic adapter built from the configuration.
Namespace(p) == build_cache_namespace(p, DefaultModel(p), THEMES_DICT)

\* The batches passed to classify_batch.
ClassifierBatches ==
    {<<>>, <<Track(1)>>, <<Track(2)>>, <<Track(1), Track(2)>>}

\* One object of the JSON array the prompt asks for.
Item(track_id, suggested_theme) ==
    [track_id |-> track_id, suggested_theme |-> suggested_theme,
     confidence |-> 80, reasoning |-> "fits"]

\* The answers the LLM provider can give to a request.
LlmResponses ==
    { LlmResponse("error", <<>>),
      LlmResponse("not_json", <<>>),
      LlmResponse("json_object", <<>>),
      LlmResponse("json_array", <<>>),
      LlmResponse("json_array", <<Item(1, "ambiance")>>),
      LlmResponse("json_array",
                  <<Item(1, "ambiance"), Item(2, "lets_dance")>>),
      LlmResponse("fenced_array",
                  <<Item(2, "ambiance"), Item(2, "lets_dance")>>) }

\* One record of batch_calls; no answer is recorded when no request is made.
BatchCall(batch, response, out) ==
    [run |-> run, provider |-> provider, batch |-> batch,
     cache_before |-> suggestion_cache, entries_before |-> cache_entries,
     file_before |-> cache_file,
     response |-> IF out.sent = <<>> THEN LlmResponse("none", <<>>)
                  ELSE response,
     sent |-> out.sent, raised |-> out.raised, result |-> out.result]

InitClassifier ==
    /\ tracks = FetchedTracks
    /\ session = ResumeSessionUseCase_execute(<<>>, FetchedTracks)
    /\ progress_file = <<>>
    /\ threads = <<>>
    /\ hist = <<>>
    /\ NoView
    /\ NoSynchronizer
    /\ NoStoreCalls
    /\ InfraIdle
    /\ provider \in Providers
    /\ run = 1
    /\ suggestion_cache = <<>>
    /\ cache_entries = <<>>
    /\ cache_file = <<>>
    /\ batch_calls = <<>>

\* classifier.classify_batch(batch), the LLM answering response if asked.
ClassifyBatch(batch, response) ==
    /\ Len(batch_calls) < MaxBatches
    /\ IF provider = "anthropic"
       THEN LET out == AnthropicClassifierAdapter_classify_batch(
                           suggestion_cache, cache_entries, cache_file,
                           PERSISTENT_CACHE_ENABLED, Namespace(provider),
                           batch, response)
            IN  /\ suggestion_cache' = out.cache
                /\ cache_entries' = out.entries
                /\ cache_file' = out.file
                /\ batch_calls' = Append(batch_calls,
                                         BatchCall(batch, response, out))
       ELSE LET out == OpenAIClassifierAdapter_classify_batch(
                           suggestion_cache, batch, response)
            IN  /\ suggestion_cache' = out.cache
                /\ batch_calls' = Append(batch_calls,
                                         BatchCall(batch, response, out))
                /\ UNCHANGED <<cache_entries, cache_file>>
    /\ UNCHANGED <<sessionVars, viewVars, playlistVars, storeVars, appVars,
                   infraVars,
                   provider, run>>

\* The application is started again, configured for provider p: a new
\* classifier adapter is built, and the Anthropic one loads the cache file.
NewRun(p) ==
    /\ run < MaxRuns
    /\ run' = run + 1
    /\ provider' = p
    /\ suggestion_cache' = <<>>
    /\ cache_entries' = IF p = "anthropic"
                        THEN PersistentSuggestionCache_load(cache_file)
                        ELSE <<>>
    /\ UNCHANGED <<sessionVars, viewVars, playlistVars, storeVars, appVars,
                   infraVars,
                   cache_file, batch_calls>>

NextClassifier ==
    \/ \E batch \in ClassifierBatches, response \in LlmResponses :
          ClassifyBatch(batch, response)
    \/ \E p \in Providers : NewRun(p)

SpecClassifier == InitClassifier /\ [][NextClassifier]_vars

\* ------------------------------------------------ the cache key builders
\* A run with nothing classified yet.
NoSession ==
    /\ tracks = FetchedTracks
    /\ session = ResumeSessionUseCase_execute(<<>>, FetchedTracks)
    /\ progress_file = <<>>
    /\ threads = <<>>
    /\ hist = <<>>

KeyProviders == {"openai", "anthropic"}

KeyModels == {"gpt-4o-mini", "gpt-4.1-mini"}

\* Theme dicts: THEMES_DICT, the same built in the other order, with one
\* definition reworded, and with one theme only.
KeyThemes ==
    { THEMES_DICT,
      <<THEMES_DICT[2], THEMES_DICT[1]>>,
      <<THEMES_DICT[1], <<"lets_dance", "Dance floor">> >>,
      <<THEMES_DICT[1]>> }

\* The values each field of a Track takes.
TrackFieldValues ==
    [id |-> {1, 2},
     name |-> {<<"name", 1>>, <<"name", 2>>},
     artist |-> {<<"artist", 1>>, <<"artist", 2>>},
     album |-> {<<"album", 1>>, <<"album", 2>>},
     popularity |-> {<<>>, <<42>>},
     duration_ms |-> {0, 180000},
     release_date |-> {"", "2024-01-01"},
     explicit |-> {FALSE, TRUE},
     album_image_url |-> {<<>>, <<"https://i.scdn.co/image/1">>}]

\* The tracks the first key is built for.
KeyTracks ==
    { Track(1),
      [id |-> 2, name |-> <<"name", 2>>, artist |-> <<"artist", 2>>,
       album |-> <<"album", 2>>, popularity |-> <<42>>,
       duration_ms |-> 180000, release_date |-> "2024-01-01",
       explicit |-> TRUE,
       album_image_url |-> <<"https://i.scdn.co/image/1">>] }

\* The arguments that differ from args in at most one of provider, model,
\* themes and the fields of the track.
OneChange(args) ==
    {[args EXCEPT !.provider = p] : p \in KeyProviders}
    \cup {[args EXCEPT !.model = m] : m \in KeyModels}
    \cup {[args EXCEPT !.themes = t] : t \in KeyThemes}
    \cup UNION {{[args EXCEPT !.track[f] = v] : v \in TrackFieldValues[f]} :
                   f \in DOMAIN TrackFieldValues}

\* One record of key_calls.
KeyCall(args) ==
    [args |-> args,
     key |-> build_track_cache_key(
                 build_cache_namespace(args.provider, args.model,
                                       args.themes),
                 args.track)]

InitCacheKey ==
    /\ NoSession
    /\ NoView
    /\ NoSynchronizer
    /\ thread_runs = <<>>
    /\ NoStoreCalls
    /\ NoAnalysis
    /\ NoRequests
    /\ NoThreadSteps
    /\ NoConfig
    /\ NoClassifierCalls
    /\ NoSaves
    /\ NoPreloadJobs
    /\ cache_ops = <<>>
    /\ key_args \in [provider : KeyProviders, model : KeyModels,
                     themes : {THEMES_DICT}, track : KeyTracks]
    /\ key_calls = <<>>

\* The key is built for next, after the one for key_args.
BuildTrackCacheKey(next) ==
    /\ Len(key_calls) <= MaxKeyCalls
    /\ key_args' = next
    /\ key_calls' = IF key_calls = <<>>
                    THEN <<KeyCall(key_args), KeyCall(next)>>
                    ELSE Append(key_calls, KeyCall(next))
    /\ UNCHANGED <<sessionVars, viewVars, playlistVars, storeVars,
                   classifierVars, appVars, callVars, stepVars, runnerVars, configVars, saveVars, cache_ops,
                   preloadVars, thread_runs>>

NextCacheKey == \E next \in OneChange(key_args) : BuildTrackCacheKey(next)

SpecCacheKey == InitCacheKey /\ [][NextCacheKey]_vars

\* ---------------------------------- saving the cache file, step by step
\* The keys and suggestion lists handed to put_many.
SaveKey(i) == build_track_cache_key(Namespace("anthropic"), Track(i))

SaveValues ==
    { [k \in {SaveKey(1)} |-> <<Suggestion(1, "ambiance", 80, "fits")>>],
      [k \in {SaveKey(2)} |-> <<Suggestion(2, "lets_dance", 60, "beat")>>],
      [k \in {SaveKey(1)} |-> <<>>] }

\* The content of the cache file when the adapter is built.
InitialCacheFiles ==
    { <<>>,
      << [k \in {SaveKey(1)} |-> <<Suggestion(1, "lets_dance", 70, "old")>>] >> }

InitCacheSave ==
    /\ NoSession
    /\ NoView
    /\ NoSynchronizer
    /\ thread_runs = <<>>
    /\ NoStoreCalls
    /\ NoAnalysis
    /\ NoRequests
    /\ NoThreadSteps
    /\ NoConfig
    /\ NoKeyCalls
    /\ provider = "anthropic"
    /\ run = 1
    /\ suggestion_cache = <<>>
    /\ cache_file \in InitialCacheFiles
    /\ cache_entries = PersistentSuggestionCache_load(cache_file)
    /\ batch_calls = <<>>
    /\ temp_file = <<>>
    /\ save_pc = [t \in SaveThreads |-> "idle"]
    /\ save_payload = [t \in SaveThreads |-> <<>>]
    /\ save_handle = [t \in SaveThreads |-> "none"]
    /\ save_contents = {cache_file}
    /\ save_count = 0
    /\ cache_ops = <<>>
    /\ NoPreloadJobs

SaveUnchanged ==
    UNCHANGED <<sessionVars, viewVars, playlistVars, storeVars, appVars, callVars, stepVars, runnerVars, configVars,
                keyVars, provider, run, suggestion_cache, batch_calls,
                cache_ops, preloadVars, thread_runs>>

\* put_many(values) up to the call of _save: the loop over values.
PutManyLoop(t, values) ==
    /\ save_pc[t] = "idle"
    /\ save_count < MaxSaves
    /\ LET out == PersistentSuggestionCache_put_many(cache_entries,
                                                     cache_file, values)
       IN  /\ cache_entries' = out.entries
           /\ save_pc' = [save_pc EXCEPT
                  ![t] = IF out.entries # cache_entries THEN "dumps"
                         ELSE "idle"]
    /\ save_count' = save_count + 1
    /\ UNCHANGED <<cache_file, temp_file, save_payload, save_handle,
                   save_contents>>
    /\ SaveUnchanged

\* _save: json.dumps(payload), the argument of write_text.
SaveDumps(t) ==
    /\ save_pc[t] = "dumps"
    /\ save_payload' = [save_payload EXCEPT ![t] = <<cache_entries>>]
    /\ save_contents' = save_contents \cup {<<cache_entries>>}
    /\ save_pc' = [save_pc EXCEPT ![t] = "open"]
    /\ UNCHANGED <<cache_entries, cache_file, temp_file, save_handle,
                   save_count>>
    /\ SaveUnchanged

\* write_text: open(temp_path, "w") creates the file or truncates it.
SaveOpen(t) ==
    /\ save_pc[t] = "open"
    /\ temp_file' = EmptyFile
    /\ save_handle' = [save_handle EXCEPT ![t] = "temp"]
    /\ save_pc' = [save_pc EXCEPT ![t] = "write"]
    /\ UNCHANGED <<cache_entries, cache_file, save_payload, save_contents,
                   save_count>>
    /\ SaveUnchanged

\* write_text: the text is written to the file the handle refers to, and
\* the handle is closed.
SaveWrite(t) ==
    /\ save_pc[t] = "write"
    /\ temp_file' = IF save_handle[t] = "temp" THEN save_payload[t]
                    ELSE temp_file
    /\ cache_file' = IF save_handle[t] = "cache" THEN save_payload[t]
                     ELSE cache_file
    /\ save_handle' = [save_handle EXCEPT ![t] = "none"]
    /\ save_pc' = [save_pc EXCEPT ![t] = "replace"]
    /\ UNCHANGED <<cache_entries, save_payload, save_contents, save_count>>
    /\ SaveUnchanged

\* temp_path.replace(self.path): the temporary file takes the place of the
\* cache file, and open handles follow their files; with no temporary file
\* the call raises FileNotFoundError, which _save logs.
SaveReplace(t) ==
    /\ save_pc[t] = "replace"
    /\ IF temp_file = <<>>
       THEN UNCHANGED <<cache_file, temp_file, save_handle>>
       ELSE /\ cache_file' = temp_file
            /\ temp_file' = <<>>
            /\ save_handle' = [u \in SaveThreads |->
                   IF save_handle[u] = "temp" THEN "cache"
                   ELSE IF save_handle[u] = "cache" THEN "unlinked"
                   ELSE save_handle[u]]
    /\ save_pc' = [save_pc EXCEPT ![t] = "idle"]
    /\ UNCHANGED <<cache_entries, save_payload, save_contents, save_count>>
    /\ SaveUnchanged

\* The process is killed: no thread takes another step.
SaveCrash ==
    /\ \E t \in SaveThreads : save_pc[t] \notin {"idle", "crashed"}
    /\ save_pc' = [t \in SaveThreads |-> "crashed"]
    /\ UNCHANGED <<cache_entries, cache_file, temp_file, save_payload,
                   save_handle, save_contents, save_count>>
    /\ SaveUnchanged

NextCacheSave ==
    \/ \E t \in SaveThreads, values \in SaveValues : PutManyLoop(t, values)
    \/ \E t \in SaveThreads : SaveDumps(t)
    \/ \E t \in SaveThreads : SaveOpen(t)
    \/ \E t \in SaveThreads : SaveWrite(t)
    \/ \E t \in SaveThreads : SaveReplace(t)
    \/ SaveCrash

SpecCacheSave == InitCacheSave /\ [][NextCacheSave]_vars

\* ------------------------------- the persistent cache, called directly
\* The lists of suggestions stored under a key.
CacheLists ==
    { <<>>,
      <<Suggestion(1, "ambiance", 80, "fits")>>,
      <<Suggestion(2, "lets_dance", 60, "beat"),
        Suggestion(2, "ambiance", 55, "calm")>> }

\* The dicts handed to put_many.
CacheValues ==
    UNION {[keys -> CacheLists] : keys \in {{SaveKey(1)}, {SaveKey(2)}}}

\* A file of the cache's layout in which the confidence of the one stored
\* item is text.
BadItemFile ==
    << [k \in {SaveKey(1)} |->
           <<Suggestion(1, "ambiance", NotANumber, "fits")>>] >>

\* The cache file found by the first constructor.
FoundCacheFiles ==
    InitialCacheFiles \cup {DamagedFile(kind) : kind \in DamageKinds}
        \cup {BadItemFile}

\* One record of cache_ops.
CacheOp(op, key, values, wrote, raised, result) ==
    [op |-> op, key |-> key, values |-> values,
     entries_before |-> cache_entries, file_before |-> cache_file,
     wrote |-> wrote, raised |-> raised, result |-> result]

InitCache ==
    /\ NoSession
    /\ NoView
    /\ NoSynchronizer
    /\ thread_runs = <<>>
    /\ NoStoreCalls
    /\ NoAnalysis
    /\ NoRequests
    /\ NoThreadSteps
    /\ NoConfig
    /\ NoKeyCalls
    /\ NoSaves
    /\ NoPreloadJobs
    /\ provider = "anthropic"
    /\ run = 1
    /\ suggestion_cache = <<>>
    /\ cache_file \in FoundCacheFiles
    /\ cache_entries = <<>>
    /\ batch_calls = <<>>
    /\ cache_ops = <<>>

CacheUnchanged ==
    UNCHANGED <<sessionVars, viewVars, playlistVars, storeVars, appVars, callVars, stepVars, runnerVars, configVars,
                keyVars, saveVars, preloadVars, thread_runs, provider, run,
                suggestion_cache, batch_calls>>

\* PersistentSuggestionCache(path)
CacheConstruct ==
    /\ Len(cache_ops) < MaxCacheOps
    /\ cache_entries' = PersistentSuggestionCache_load(cache_file)
    /\ cache_ops' = Append(cache_ops,
                           CacheOp("construct", 0, <<>>, FALSE, FALSE, <<>>))
    /\ UNCHANGED cache_file
    /\ CacheUnchanged

\* cache.get(SaveKey(i))
CacheGet(i) ==
    /\ cache_ops # <<>>
    /\ Len(cache_ops) < MaxCacheOps
    /\ cache_ops' = Append(cache_ops,
          IF PersistentSuggestionCache_get_raises(cache_entries, SaveKey(i))
          THEN CacheOp("get", i, <<>>, FALSE, TRUE, <<>>)
          ELSE CacheOp("get", i, <<>>, FALSE, FALSE,
                       PersistentSuggestionCache_get(cache_entries,
                                                     SaveKey(i))))
    /\ UNCHANGED <<cache_entries, cache_file>>
    /\ CacheUnchanged

\* cache.put_many(values); with save_ok false the write of _save fails,
\* which _save logs.
CachePutMany(values, save_ok) ==
    /\ cache_ops # <<>>
    /\ Len(cache_ops) < MaxCacheOps
    /\ LET out == PersistentSuggestionCache_put_many(cache_entries,
                                                     cache_file, values)
           changed == out.entries # cache_entries
       IN  /\ save_ok \/ changed
           /\ cache_entries' = out.entries
           /\ cache_file' = IF save_ok THEN out.file ELSE cache_file
           /\ cache_ops' = Append(cache_ops,
                  CacheOp("put_many", 0, values, changed /\ save_ok, FALSE,
                          <<>>))
    /\ CacheUnchanged

NextCache ==
    \/ CacheConstruct
    \/ \E i \in {1, 2} : CacheGet(i)
    \/ \E values \in CacheValues, save_ok \in BOOLEAN :
          CachePutMany(values, save_ok)

SpecCache == InitCache /\ [][NextCache]_vars

\* --------------------------------------- the preload jobs, step by step
\* The _run closure of job job_id as started by _preload_llm.
PreloadJob(batch) == [pc |-> "loop", i |-> 0, batch |-> batch]

InitPreload ==
    /\ tracks = FetchedTracks
    /\ progress_file = <<>>
    /\ session = ResumeSessionUseCase_execute(<<>>, tracks)
    /\ threads = <<>>
    /\ hist = <<>>
    /\ is_compact_layout = FALSE
    /\ analysis_job_id = 1
    /\ analysis_track_ids = preload_batch(tracks, session.current_index)
    /\ analysis_running = TRUE
    /\ analysis_error = ""
    /\ export_file = <<>>
    /\ finish_count = 0
    /\ events = 0
    /\ screen = "classify"
    /\ progress_removed_by = {}
    /\ NoStoreCalls
    /\ NoAnalysis
    /\ NoRequests
    /\ NoThreadSteps
    /\ NoConfig
    /\ NoClassifierCalls
    /\ NoSynchronizer
    /\ thread_runs = <<>>
    /\ NoKeyCalls
    /\ NoSaves
    /\ cache_ops = <<>>
    /\ preload_jobs = <<PreloadJob(analysis_track_ids)>>
    /\ stale_steps = {}

PreloadUnchanged ==
    UNCHANGED <<sessionVars, is_compact_layout, export_file, finish_count,
                events, playlistVars, storeVars, classifierVars, appVars, callVars, stepVars, runnerVars, configVars,
                keyVars, saveVars, cache_ops, thread_runs>>

\* The steps job takes now, as stale ones if a newer job has been started.
StaleSteps(job, step) ==
    IF job # analysis_job_id THEN stale_steps \cup {<<job, step>>}
    ELSE stale_steps

\* _preload_llm(), called by a handler of the view: the counter is bumped,
\* the status is reset and the thread of the new job is started.
PreloadLlm ==
    /\ analysis_job_id < MaxJobs
    /\ preload_llm(analysis_job_id, session)
    /\ preload_jobs' = Append(preload_jobs,
           PreloadJob(preload_batch(tracks, session.current_index)))
    /\ UNCHANGED stale_steps
    /\ PreloadUnchanged

\* _run: the head of the for loop with its check of the job counter.
RunLoopCheck(job) ==
    /\ preload_jobs[job].pc = "loop"
    /\ preload_jobs' = [preload_jobs EXCEPT ![job].pc =
           IF preload_jobs[job].i >= Len(preload_jobs[job].batch)
           THEN "final"
           ELSE IF job # analysis_job_id THEN "returned"
           ELSE "classify"]
    /\ UNCHANGED <<analysis_job_id, analysis_track_ids, analysis_running,
                   analysis_error, stale_steps>>
    /\ PreloadUnchanged

\* _run: classifier.classify_batch(chunk), which returns or raises.
RunClassifyChunk(job, raises) ==
    /\ preload_jobs[job].pc = "classify"
    /\ stale_steps' = StaleSteps(job, "classify_batch")
    /\ preload_jobs' = [preload_jobs EXCEPT
           ![job].pc = IF raises THEN "except" ELSE "loop",
           ![job].i = IF raises THEN @ ELSE @ + PRELOAD_BATCH_SIZE]
    /\ UNCHANGED <<analysis_job_id, analysis_track_ids, analysis_running,
                   analysis_error>>
    /\ PreloadUnchanged

\* _run: the check of the job counter in the except clause.
RunExceptCheck(job) ==
    /\ preload_jobs[job].pc = "except"
    /\ preload_jobs' = [preload_jobs EXCEPT ![job].pc =
           IF job # analysis_job_id THEN "returned" ELSE "set_error"]
    /\ UNCHANGED <<analysis_job_id, analysis_track_ids, analysis_running,
                   analysis_error, stale_steps>>
    /\ PreloadUnchanged

\* _run: self._analysis_error = str(error)[:80]; break
RunSetError(job) ==
    /\ preload_jobs[job].pc = "set_error"
    /\ analysis_error' = "error"
    /\ stale_steps' = StaleSteps(job, "_analysis_error")
    /\ preload_jobs' = [preload_jobs EXCEPT ![job].pc = "final"]
    /\ UNCHANGED <<analysis_job_id, analysis_track_ids, analysis_running>>
    /\ PreloadUnchanged

\* _run: the check of the job counter after the loop.
RunFinalCheck(job) ==
    /\ preload_jobs[job].pc = "final"
    /\ preload_jobs' = [preload_jobs EXCEPT ![job].pc =
           IF job # analysis_job_id THEN "returned" ELSE "set_running"]
    /\ UNCHANGED <<analysis_job_id, analysis_track_ids, analysis_running,
                   analysis_error, stale_steps>>
    /\ PreloadUnchanged

\* _run ending without resetting the flag.
RunSetRunning_LeavesFlag(job) ==
    /\ preload_jobs[job].pc = "set_running"
    /\ stale_steps' = StaleSteps(job, "_analysis_running")
    /\ preload_jobs' = [preload_jobs EXCEPT ![job].pc = "returned"]
    /\ UNCHANGED <<analysis_job_id, analysis_track_ids, analysis_error,
                   analysis_running>>
    /\ PreloadUnchanged

\* _run: self._analysis_running = False
RunSetRunning(job) ==
    /\ preload_jobs[job].pc = "set_running"
    /\ analysis_running' = FALSE
    /\ stale_steps' = StaleSteps(job, "_analysis_running")
    /\ preload_jobs' = [preload_jobs EXCEPT ![job].pc = "returned"]
    /\ UNCHANGED <<analysis_job_id, analysis_track_ids, analysis_error>>
    /\ PreloadUnchanged

NextPreload ==
    \/ PreloadLlm
    \/ \E job \in 1..Len(preload_jobs) : RunLoopCheck(job)
    \/ \E job \in 1..Len(preload_jobs), raises \in BOOLEAN :
          RunClassifyChunk(job, raises)
    \/ \E job \in 1..Len(preload_jobs) : RunExceptCheck(job)
    \/ \E job \in 1..Len(preload_jobs) : RunSetError(job)
    \/ \E job \in 1..Len(preload_jobs) : RunFinalCheck(job)
    \/ \E job \in 1..Len(preload_jobs) : RunSetRunning(job)

SpecPreload == InitPreload /\ [][NextPreload]_vars

\* ------------- the preload jobs with the requests they make to the LLM:
\* the handlers of the view move the cursor and start a job each, and a
\* classify_batch call waits for its answer while the other threads run
InitPreloadCalls ==
    /\ tracks = FetchedTracks
    /\ progress_file = <<>>
    /\ session = ResumeSessionUseCase_execute(<<>>, tracks)
    /\ threads = <<>>
    /\ hist = <<>>
    /\ is_compact_layout = FALSE
    /\ analysis_job_id = 1
    /\ analysis_track_ids = preload_batch(tracks, session.current_index)
    /\ analysis_running = TRUE
    /\ analysis_error = ""
    /\ export_file = <<>>
    /\ finish_count = 0
    /\ events = 0
    /\ screen = "classify"
    /\ progress_removed_by = {}
    /\ NoStoreCalls
    /\ NoAnalysis
    /\ NoRequests
    /\ NoThreadSteps
    /\ NoConfig
    /\ NoSynchronizer
    /\ NoKeyCalls
    /\ NoSaves
    /\ cache_ops = <<>>
    /\ thread_runs = <<>>
    /\ provider = "anthropic"
    /\ run = 1
    /\ suggestion_cache = <<>>
    /\ cache_entries = <<>>
    /\ cache_file = <<>>
    /\ batch_calls = <<>>
    /\ preload_jobs = <<PreloadJob(analysis_track_ids)>>
    /\ stale_steps = {}

\* A handler of the view after its use case has returned out:
\* _refresh_display() and _preload_llm() with the thread it starts.
AfterUseCase(op, track_id, theme_key, out) ==
    /\ analysis_job_id < MaxCallJobs
    /\ Apply(op, track_id, theme_key, out)
    /\ refresh_display(finish_count, out.session)
    /\ preload_llm(analysis_job_id, out.session)
    /\ preload_jobs' = Append(preload_jobs,
           PreloadJob(preload_batch(tracks, out.session.current_index)))
    /\ events' = events + 1
    /\ UNCHANGED <<is_compact_layout, playlistVars, storeVars,
                   classifierVars, appVars, stepVars, runnerVars, configVars, keyVars,
                   saveVars, cache_ops, thread_runs, stale_steps, callVars>>

\* _decide(theme_key)
JobDecide(theme_key) ==
    /\ session.current_index < Len(tracks)
    /\ LET track == tracks[session.current_index + 1]
       IN  AfterUseCase("decide", track.id, theme_key,
               ClassifyTrackUseCase_execute(session, progress_file, track,
                                            theme_key))

\* _skip()
JobSkip ==
    /\ session.current_index < Len(tracks)
    /\ LET track == tracks[session.current_index + 1]
       IN  AfterUseCase("skip", track.id, "",
               ClassifyTrackUseCase_skip(session, progress_file, track))

\* _undo()
JobUndo ==
    AfterUseCase("undo", 0, "",
                 UndoDecisionUseCase_execute(session, progress_file))

\* chunk = batch[i : i + PRELOAD_BATCH_SIZE] of the job, as tracks.
Chunk(job) ==
    LET batch == preload_jobs[job].batch
        from == preload_jobs[job].i
        to == IF from + PRELOAD_BATCH_SIZE < Len(batch)
              THEN from + PRELOAD_BATCH_SIZE ELSE Len(batch)
    IN  [k \in 1..(to - from) |-> Track(batch[from + k])]

\* _run: classifier.classify_batch(chunk) up to its request to the LLM: the
\* tracks with no cache entry are sent, and the call returns at once when
\* there is none.
RunClassifySend(job) ==
    /\ preload_jobs[job].pc = "classify"
    /\ LET part == AnthropicPartition(suggestion_cache, cache_entries,
                       PERSISTENT_CACHE_ENABLED, Namespace(provider),
                       Chunk(job))
           ids == {part.uncached[k].id : k \in 1..Len(part.uncached)}
       IN  /\ suggestion_cache' = part.cache
           /\ in_flight' = [in_flight EXCEPT ![job] = part.uncached]
           /\ sent_count' = [id \in DOMAIN sent_count |->
                 IF id \in ids THEN sent_count[id] + 1 ELSE sent_count[id]]
           /\ preload_jobs' = [preload_jobs EXCEPT
                 ![job].pc = IF part.uncached = <<>> THEN "loop"
                             ELSE "waiting",
                 ![job].i = IF part.uncached = <<>>
                            THEN @ + PRELOAD_BATCH_SIZE ELSE @]
    /\ stale_steps' = StaleSteps(job, "classify_batch")
    /\ UNCHANGED <<analysis_job_id, analysis_track_ids, analysis_running,
                   analysis_error, provider, run, cache_entries, cache_file,
                   batch_calls>>
    /\ UNCHANGED <<sessionVars, is_compact_layout, export_file, finish_count,
                   events, playlistVars, storeVars, appVars, stepVars, runnerVars,
                   configVars, keyVars, saveVars, cache_ops, thread_runs>>

\* The answers the LLM can give to a request for the tracks uncached.
AnswersFor(uncached) ==
    { LlmResponse("error", <<>>),
      LlmResponse("json_array",
                  [k \in 1..Len(uncached) |->
                      Item(uncached[k].id, "ambiance")]) }

\* _run: classifier.classify_batch(chunk) from the answer of the LLM on; the
\* call returns or raises.
RunClassifyReturn(job, response) ==
    /\ preload_jobs[job].pc = "waiting"
    /\ LET out == AnthropicAfterAnswer(suggestion_cache, cache_entries,
                      cache_file, PERSISTENT_CACHE_ENABLED,
                      Namespace(provider), in_flight[job], response)
       IN  /\ suggestion_cache' = out.cache
           /\ cache_entries' = out.entries
           /\ cache_file' = out.file
           /\ preload_jobs' = [preload_jobs EXCEPT
                 ![job].pc = IF out.raised THEN "except" ELSE "loop",
                 ![job].i = IF out.raised THEN @
                            ELSE @ + PRELOAD_BATCH_SIZE]
    /\ in_flight' = [in_flight EXCEPT ![job] = <<>>]
    /\ UNCHANGED <<analysis_job_id, analysis_track_ids, analysis_running,
                   analysis_error, provider, run, batch_calls, stale_steps,
                   sent_count>>
    /\ UNCHANGED <<sessionVars, is_compact_layout, export_file, finish_count,
                   events, playlistVars, storeVars, appVars, stepVars, runnerVars,
                   configVars, keyVars, saveVars, cache_ops, thread_runs>>

NextPreloadCalls ==
    \/ \E theme_key \in ThemeKeys : JobDecide(theme_key)
    \/ JobSkip
    \/ JobUndo
    \/ \E job \in 1..Len(preload_jobs) : RunLoopCheck(job)
    \/ \E job \in 1..Len(preload_jobs) : RunClassifySend(job)
    \/ \E job \in 1..Len(preload_jobs) :
          \E response \in AnswersFor(in_flight[job]) :
              RunClassifyReturn(job, response)
    \/ \E job \in 1..Len(preload_jobs) : RunExceptCheck(job)
    \/ \E job \in 1..Len(preload_jobs) : RunSetError(job)
    \/ \E job \in 1..Len(preload_jobs) : RunFinalCheck(job)
    \/ \E job \in 1..Len(preload_jobs) : RunSetRunning(job)

SpecPreloadCalls == InitPreloadCalls /\ [][NextPreloadCalls]_vars

\* A step of one of the preload threads.
JobStep ==
    \E job \in 1..Len(preload_jobs) :
        \/ RunLoopCheck(job)
        \/ RunClassifySend(job)
        \/ \E response \in AnswersFor(in_flight[job]) :
              RunClassifyReturn(job, response)
        \/ RunExceptCheck(job)
        \/ RunSetError(job)
        \/ RunFinalCheck(job)
        \/ RunSetRunning(job)

\* A handler of the view calls _preload_llm() without having moved the
\* cursor: an undo with nothing to take back.
PreloadAgain ==
    /\ analysis_job_id < MaxCallJobs
    /\ PreloadLlm

\* The threads keep running and every request to the LLM is answered or
\* fails; the handlers of the view may stop being called at any time.
NextPreloadFair ==
    \/ PreloadAgain
    \/ JobStep

SpecPreloadFair ==
    InitPreloadCalls /\ [][NextPreloadFair]_vars /\ WF_vars(JobStep)

\* ------------- the use cases with their background threads, which run on
\* the Spotify synchronizer in any order
\* The tracks handed to the use cases.
SyncTracks == {Track(1)}

\* The account before the run.
SyncAccounts ==
    { <<>>,
      <<[name |-> PlaylistName("ambiance"), items |-> <<2>>]>> }

InitSync ==
    /\ NoSession
    /\ NoView
    /\ NoStoreCalls
    /\ NoAnalysis
    /\ NoRequests
    /\ NoThreadSteps
    /\ NoConfig
    /\ NoClassifierCalls
    /\ NoKeyCalls
    /\ NoSaves
    /\ NoPreloadJobs
    /\ cache_ops = <<>>
    /\ thread_runs = <<>>
    /\ audit_mode = FALSE
    /\ playlist_cache = [k \in ThemeKeys |-> 0]
    /\ remote_playlists \in SyncAccounts
    /\ added = <<>>
    /\ removed = <<>>
    /\ port_calls = <<>>

\* The threads started and not run yet.
PendingThreads ==
    {i \in 1..Len(threads) :
        \A k \in 1..Len(thread_runs) : thread_runs[k].thread # i}

\* Thread i runs its call, which fails at its first request if fails.
RunThread(i, fails) ==
    /\ i \in PendingThreads
    /\ fails =>
          run_thread(threads[i], playlist_cache, remote_playlists,
                     FALSE).calls # <<>>
    /\ UNCHANGED <<sessionVars, viewVars, storeVars, classifierVars, appVars, callVars, stepVars, runnerVars, configVars,
                   keyVars, saveVars, preloadVars, cache_ops, audit_mode,
                   added, removed, port_calls>>
    /\ LET out == run_thread(threads[i], playlist_cache, remote_playlists,
                             fails)
       IN  /\ playlist_cache' = out.cache
           /\ remote_playlists' = out.playlists
           /\ thread_runs' = Append(thread_runs,
                  [thread |-> i, calls |-> out.calls, raised |-> out.raised,
                   hist_len |-> Len(hist),
                   session_before |-> session, session_after |-> session',
                   file_before |-> progress_file,
                   file_after |-> progress_file',
                   playlists_before |-> remote_playlists,
                   playlists_after |-> out.playlists])

NextSync ==
    \/ /\ Len(hist) < MaxSyncCalls
       /\ \/ \E track \in SyncTracks, theme_key \in ThemeKeys :
                Decide(track, theme_key)
          \/ \E track \in SyncTracks : Skip(track)
          \/ Undo
    \/ \E i \in 1..Len(threads), fails \in BOOLEAN : RunThread(i, fails)

SpecSync == InitSync /\ [][NextSync]_vars

\* -------------- the background threads on the Spotify synchronizer, step
\* by step: each request to the remote service and each access to the
\* playlist cache is a step, and the steps of the threads interleave
InitThreads ==
    /\ NoSession
    /\ NoView
    /\ NoStoreCalls
    /\ NoAnalysis
    /\ NoRequests
    /\ NoConfig
    /\ NoClassifierCalls
    /\ NoKeyCalls
    /\ NoSaves
    /\ NoPreloadJobs
    /\ NoThreadSteps
    /\ cache_ops = <<>>
    /\ thread_runs = <<>>
    /\ audit_mode = FALSE
    /\ playlist_cache = [k \in ThemeKeys |-> 0]
    /\ remote_playlists \in SyncAccounts
    /\ added = <<>>
    /\ removed = <<>>
    /\ port_calls = <<>>

StepUnchanged ==
    UNCHANGED <<sessionVars, viewVars, storeVars, classifierVars, appVars, callVars, runnerVars,
                configVars, keyVars, saveVars, preloadVars, cache_ops,
                thread_runs, audit_mode, added, removed, port_calls>>

\* Thread i has been started with this target and is at pc.
At(i, target, pc) ==
    /\ i \in 1..Len(threads)
    /\ threads[i].target = target
    /\ thread_pc[i] = pc

\* add_track, _get_or_create_playlist: the lookup of theme_key in the cache.
AddTrackLookup(i) ==
    /\ At(i, "add_track", "start")
    /\ LET id == playlist_cache[threads[i].theme_key]
       IN  /\ thread_playlist_id' = [thread_playlist_id EXCEPT ![i] = id]
           /\ thread_pc' = [thread_pc EXCEPT ![i] =
                               IF id # 0 THEN "check" ELSE "find"]
    /\ UNCHANGED <<playlist_cache, remote_playlists, creates>>
    /\ StepUnchanged

\* add_track, _get_or_create_playlist: _find_playlist(playlist_name), and the
\* id put into the cache when a playlist is found.
AddTrackFind(i) ==
    /\ At(i, "add_track", "find")
    /\ LET theme_key == threads[i].theme_key
           existing_id == find_playlist(remote_playlists,
                                        PlaylistName(theme_key)).id
       IN  IF existing_id # 0
           THEN /\ playlist_cache' =
                      [playlist_cache EXCEPT ![theme_key] = existing_id]
                /\ thread_playlist_id' =
                      [thread_playlist_id EXCEPT ![i] = existing_id]
                /\ thread_pc' = [thread_pc EXCEPT ![i] = "check"]
           ELSE /\ thread_pc' = [thread_pc EXCEPT ![i] = "create"]
                /\ UNCHANGED <<playlist_cache, thread_playlist_id>>
    /\ UNCHANGED <<remote_playlists, creates>>
    /\ StepUnchanged

\* add_track, _get_or_create_playlist: user_playlist_create, and the new id
\* put into the cache.
AddTrackCreate(i) ==
    /\ At(i, "add_track", "create")
    /\ LET theme_key == threads[i].theme_key
           playlist_id == Len(remote_playlists) + 1
       IN  /\ remote_playlists' =
                 Append(remote_playlists,
                        [name |-> PlaylistName(theme_key), items |-> <<>>])
           /\ creates' = [creates EXCEPT ![theme_key] = @ + 1]
           /\ playlist_cache' =
                 [playlist_cache EXCEPT ![theme_key] = playlist_id]
           /\ thread_playlist_id' =
                 [thread_playlist_id EXCEPT ![i] = playlist_id]
    /\ thread_pc' = [thread_pc EXCEPT ![i] = "check"]
    /\ StepUnchanged

\* add_track: _track_in_playlist(playlist_id, track_id)
AddTrackCheck(i) ==
    /\ At(i, "add_track", "check")
    /\ thread_pc' = [thread_pc EXCEPT ![i] =
          IF track_in_playlist(remote_playlists, thread_playlist_id[i],
                               threads[i].track_id).found
          THEN "done" ELSE "add"]
    /\ UNCHANGED <<playlist_cache, remote_playlists, creates,
                   thread_playlist_id>>
    /\ StepUnchanged

\* add_track: playlist_add_items(playlist_id, [track_id])
AddTrackAddItems(i) ==
    /\ At(i, "add_track", "add")
    /\ remote_playlists' =
          [remote_playlists EXCEPT ![thread_playlist_id[i]].items =
              Append(@, threads[i].track_id)]
    /\ thread_pc' = [thread_pc EXCEPT ![i] = "done"]
    /\ UNCHANGED <<playlist_cache, creates, thread_playlist_id>>
    /\ StepUnchanged

\* remove_track: the lookup of theme_key in the cache.
RemoveTrackLookup(i) ==
    /\ At(i, "remove_track", "start")
    /\ LET id == playlist_cache[threads[i].theme_key]
       IN  /\ thread_playlist_id' = [thread_playlist_id EXCEPT ![i] = id]
           /\ thread_pc' = [thread_pc EXCEPT ![i] =
                               IF id # 0 THEN "remove" ELSE "done"]
    /\ UNCHANGED <<playlist_cache, remote_playlists, creates>>
    /\ StepUnchanged

\* remove_track: playlist_remove_all_occurrences_of_items(playlist_id,
\* [track_id])
RemoveTrackRequest(i) ==
    /\ At(i, "remove_track", "remove")
    /\ remote_playlists' =
          [remote_playlists EXCEPT ![thread_playlist_id[i]].items =
              SelectSeq(@, LAMBDA t : t # threads[i].track_id)]
    /\ thread_pc' = [thread_pc EXCEPT ![i] = "done"]
    /\ UNCHANGED <<playlist_cache, creates, thread_playlist_id>>
    /\ StepUnchanged

\* The view's decide and undo, each followed by whatever steps the threads
\* started so far take.
NextThreads ==
    \/ /\ Len(hist) < MaxSyncCalls
       /\ \/ \E theme_key \in ThemeKeys : UiDecide(theme_key)
          \/ UiUndo
    \/ \E i \in ThreadIds : AddTrackLookup(i)
    \/ \E i \in ThreadIds : AddTrackFind(i)
    \/ \E i \in ThreadIds : AddTrackCreate(i)
    \/ \E i \in ThreadIds : AddTrackCheck(i)
    \/ \E i \in ThreadIds : AddTrackAddItems(i)
    \/ \E i \in ThreadIds : RemoveTrackLookup(i)
    \/ \E i \in ThreadIds : RemoveTrackRequest(i)

SpecThreads == InitThreads /\ [][NextThreads]_vars

\* --------------------------------------------- the configuration adapter
\* The keychain at the time of a call: "ok"; "error", when its operations
\* raise KeyringError; "missing", when the keyring module is not there.
KeychainStates == {"ok", "error", "missing"}

\* KeyringSecretStore.get(key): <<>> stands for None.
KeyringSecretStore_get(data, available, key) ==
    IF available = "ok" /\ data[key] # "" THEN <<data[key]>> ELSE <<>>

\* KeyringSecretStore.set(key, value): the keychain after the call and the
\* value returned.  An empty value deletes the password, and delete hides
\* a KeyringError from set.
KeyringSecretStore_set(data, available, key, value) ==
    IF available = "missing" THEN [data |-> data, stored |-> FALSE]
    ELSE IF available = "error"
    THEN [data |-> data, stored |-> (value = "")]
    ELSE [data |-> [data EXCEPT ![key] = value], stored |-> TRUE]

\* _DEFAULTS, with the fields the model follows.
DEFAULTS ==
    [spotify_client_id |-> "", spotify_client_secret |-> "",
     llm_api_key |-> ""]

\* JsonConfigAdapter.save(cfg): the file, the keychain and what set
\* returned for each secret field.
JsonConfigAdapter_save(data, available, cfg) ==
    LET set(field) == KeyringSecretStore_set(data, available, field,
                                             cfg[field])
    IN  [file |-> << [field \in DOMAIN cfg |->
                         IF field \in SECRET_FIELDS /\ set(field).stored
                         THEN "" ELSE cfg[field]] >>,
         data |-> [field \in SECRET_FIELDS |-> set(field).data[field]],
         stored |-> [field \in SECRET_FIELDS |-> set(field).stored]]

\* JsonConfigAdapter.load()
JsonConfigAdapter_load(file, data, available) ==
    LET cfg == IF file = <<>> THEN DEFAULTS ELSE file[1]
        secret(field) == KeyringSecretStore_get(data, available, field)
    IN  [field \in DOMAIN cfg |->
            IF field \in SECRET_FIELDS /\ secret(field) # <<>>
            THEN secret(field)[1] ELSE cfg[field]]

\* The configurations the setup screens save.
ConfigInputs ==
    [spotify_client_id : {"client-id"},
     spotify_client_secret : {"", "spotify-secret", "spotify-secret-2"},
     llm_api_key : {"", "sk-test"}]

InitConfig ==
    /\ NoSession
    /\ NoView
    /\ NoSynchronizer
    /\ NoStoreCalls
    /\ NoAnalysis
    /\ NoRequests
    /\ NoThreadSteps
    /\ NoClassifierCalls
    /\ NoKeyCalls
    /\ NoSaves
    /\ NoPreloadJobs
    /\ cache_ops = <<>>
    /\ thread_runs = <<>>
    /\ NoConfig

ConfigUnchanged ==
    UNCHANGED <<sessionVars, viewVars, playlistVars, storeVars,
                classifierVars, appVars, callVars, stepVars, runnerVars, keyVars, saveVars, preloadVars,
                cache_ops, thread_runs>>

\* config.save(cfg), the keychain being in state available.
ConfigSave(cfg, available) ==
    /\ Len(config_ops) < MaxConfigOps
    /\ LET out == JsonConfigAdapter_save(keyring, available, cfg)
       IN  /\ config_file' = out.file
           /\ keyring' = out.data
           /\ config_ops' = Append(config_ops,
                  [op |-> "save", cfg |-> cfg, available |-> available,
                   stored |-> out.stored, file_after |-> out.file,
                   result |-> DEFAULTS])
    /\ ConfigUnchanged

\* config.load(), the keychain being in state available.
ConfigLoad(available) ==
    /\ Len(config_ops) < MaxConfigOps
    /\ config_ops' = Append(config_ops,
           [op |-> "load", cfg |-> DEFAULTS, available |-> available,
            stored |-> [field \in SECRET_FIELDS |-> FALSE],
            file_after |-> config_file,
            result |-> JsonConfigAdapter_load(config_file, keyring,
                                              available)])
    /\ UNCHANGED <<config_file, keyring>>
    /\ ConfigUnchanged

NextConfig ==
    \/ \E cfg \in ConfigInputs, available \in KeychainStates :
          ConfigSave(cfg, available)
    \/ \E available \in KeychainStates : ConfigLoad(available)

SpecConfig == InitConfig /\ [][NextConfig]_vars

\* -------------------------------------------- the pre-analysis runner
\* The liked songs of a run of the pre-analysis page: enough of them for
\* three batches.
AnalysisTracks == [i \in 1..MaxAnalysisTracks |-> Track(i)]

\* progress.json as a session left it with the cursor at index, the tracks
\* before it skipped; no file when index is 0.
SavedAt(index) ==
    IF index = 0 THEN <<>>
    ELSE JsonProgressAdapter_save(
             ClassificationSession(
                 index,
                 [i \in 1..Len(AnalysisTracks) |-> AnalysisTracks[i].id],
                 [i \in 1..index |->
                     Decision(AnalysisTracks[i].id, AnalysisTracks[i].name,
                              AnalysisTracks[i].artist, <<>>, TRUE)]))

\* The cursors of the progress files the page is built over: none, one in
\* the second batch, one past the last track.
SavedCursors == {0, PRE_ANALYSIS_BATCH_SIZE + 1, MaxAnalysisTracks}

\* resume_index of launch_classification, from the progress file and the
\* tracks fetched.
ResumeIndex(file, fetched) ==
    LET preview_session == JsonProgressAdapter_load(file)
        last == IF Len(fetched) - 1 > 0 THEN Len(fetched) - 1 ELSE 0
    IN  IF preview_session = <<>> THEN 0
        ELSE LET at == IF preview_session[1].current_index > 0
                       THEN preview_session[1].current_index ELSE 0
             IN  IF at < last THEN at ELSE last

\* analysis_total
AnalysisTotal ==
    IF Len(tracks) - resume_index > 0 THEN Len(tracks) - resume_index ELSE 0

\* (n + PRE_ANALYSIS_BATCH_SIZE - 1) // PRE_ANALYSIS_BATCH_SIZE if n else 0
BatchTotal(n) ==
    IF n > 0
    THEN (n + PRE_ANALYSIS_BATCH_SIZE - 1) \div PRE_ANALYSIS_BATCH_SIZE
    ELSE 0

\* on_start_analysis: analysis_state after the click, when no run is
\* running and there are tracks to analyze.
on_start_analysis(state, index, total) ==
    [state EXCEPT !.running = TRUE, !.paused = FALSE,
                  !.cancel_requested = FALSE, !.processed_ids = <<>>,
                  !.current_ids = <<>>, !.next_index = index,
                  !.batch_done = 0, !.active_batch = 0, !.has_run = TRUE,
                  !.completed = FALSE, !.batch_total = BatchTotal(total)]

\* on_pause_analysis, while a run is running.
on_pause_analysis(state) == [state EXCEPT !.paused = ~@]

\* on_cancel_analysis, while a run is running.
on_cancel_analysis(state) ==
    [state EXCEPT !.cancel_requested = TRUE, !.paused = FALSE]

\* The end of _run_analysis that sets completed whether or not
\* cancellation was requested.
run_analysis_end_IgnoresCancel(state, total) ==
    [state EXCEPT !.running = FALSE, !.paused = FALSE,
                  !.current_ids = <<>>, !.active_batch = 0,
                  !.completed = (Len(state.processed_ids) >= total
                                 /\ total > 0)]

\* The end of _run_analysis, after its loop: analysis_state.
run_analysis_end(state, total) ==
    [state EXCEPT !.running = FALSE, !.paused = FALSE,
                  !.current_ids = <<>>, !.active_batch = 0,
                  !.completed = (/\ ~state.cancel_requested
                                 /\ Len(state.processed_ids) >= total
                                 /\ total > 0)]

\* A coroutine running _run_analysis, about to enter its loop.  Beside its
\* position, the start of its next batch and the tracks of the request it
\* waits for, the coroutine carries what is observed of it: whether
\* cancellation was requested during it and whether it was paused then,
\* whether it sent a batch after that, the tracks of the batches that
\* returned, the running flag as its last step left it, and whether it
\* opened qualification.
AnalysisRun(index) ==
    [pc |-> "loop", start |-> index, uncached |-> <<>>,
     cancelled |-> FALSE, paused_at_cancel |-> FALSE,
     sent_after_cancel |-> FALSE, processed |-> 0, left_running |-> <<>>,
     opened |-> FALSE]

InitAnalysis ==
    /\ tracks = AnalysisTracks
    /\ \E index \in SavedCursors : progress_file = SavedAt(index)
    /\ session = ResumeSessionUseCase_execute(progress_file, tracks)
    /\ threads = <<>>
    /\ hist = <<>>
    /\ is_compact_layout = FALSE
    /\ analysis_job_id = 0
    /\ analysis_track_ids = <<>>
    /\ analysis_running = FALSE
    /\ analysis_error = ""
    /\ export_file = <<>>
    /\ finish_count = 0
    /\ events = 0
    /\ NoSynchronizer
    /\ screen = "pre_analysis"
    /\ progress_removed_by = {}
    /\ NoStoreCalls
    /\ provider = "anthropic"
    /\ run = 1
    /\ suggestion_cache = <<>>
    /\ cache_entries = <<>>
    /\ cache_file = <<>>
    /\ batch_calls = <<>>
    /\ NoKeyCalls
    /\ NoSaves
    /\ cache_ops = <<>>
    /\ NoPreloadJobs
    /\ thread_runs = <<>>
    /\ NoConfig
    /\ NoThreadSteps
    /\ NoRequests
    /\ resume_index = ResumeIndex(progress_file, tracks)
    /\ analysis_state = NewAnalysisState(resume_index)
    /\ analysis_runs = <<>>

\* What neither the handlers of the page nor the steps of the coroutine change.
AnalysisUnchanged ==
    UNCHANGED <<storeVars, keyVars, saveVars, cache_ops, preloadVars,
                thread_runs, configVars, stepVars, callVars, resume_index,
                tracks, progress_file, threads, hist, events,
                remote_playlists, progress_removed_by, provider, run,
                batch_calls>>

\* A handler of the page or a step of the coroutine that leaves the classifier
\* and the qualification view alone.
PageOnly ==
    /\ UNCHANGED <<session, is_compact_layout, analysis_job_id,
                   analysis_track_ids, analysis_running, analysis_error,
                   export_file, finish_count, audit_mode, playlist_cache,
                   added, removed, port_calls, screen>>
    /\ AnalysisUnchanged

\* on_start_analysis: the Start analysis button.  The tracks being
\* non-empty, analysis_total is positive.
OnStartAnalysis ==
    /\ screen = "pre_analysis"
    /\ Len(analysis_runs) < MaxAnalysisRuns
    /\ ~analysis_state.running
    /\ AnalysisTotal > 0
    /\ analysis_state' =
          on_start_analysis(analysis_state, resume_index, AnalysisTotal)
    /\ analysis_runs' = Append(analysis_runs, AnalysisRun(resume_index))
    /\ UNCHANGED <<suggestion_cache, cache_entries, cache_file>>
    /\ PageOnly

\* on_pause_analysis: the Pause / Resume button.
OnPauseAnalysis ==
    /\ screen = "pre_analysis"
    /\ analysis_state.running
    /\ analysis_state' = on_pause_analysis(analysis_state)
    /\ UNCHANGED <<analysis_runs, suggestion_cache, cache_entries,
                   cache_file>>
    /\ PageOnly

\* The coroutines whose loop has not ended.
InLoop(i) == analysis_runs[i].pc \in {"loop", "waiting"}

\* on_cancel_analysis: the Cancel button.
OnCancelAnalysis ==
    /\ screen = "pre_analysis"
    /\ analysis_state.running
    /\ analysis_state' = on_cancel_analysis(analysis_state)
    /\ analysis_runs' = [i \in 1..Len(analysis_runs) |->
          IF InLoop(i) /\ ~analysis_runs[i].cancelled
          THEN [analysis_runs[i] EXCEPT
                   !.cancelled = TRUE,
                   !.paused_at_cancel = analysis_state.paused]
          ELSE analysis_runs[i]]
    /\ UNCHANGED <<suggestion_cache, cache_entries, cache_file>>
    /\ PageOnly

\* batch = tracks[start : start + PRE_ANALYSIS_BATCH_SIZE]
AnalysisBatch(start) ==
    LET to == IF start + PRE_ANALYSIS_BATCH_SIZE < Len(tracks)
              THEN start + PRE_ANALYSIS_BATCH_SIZE ELSE Len(tracks)
    IN  [k \in 1..(to - start) |-> tracks[start + k]]

\* _run_analysis, one turn of its loop up to the await of classify_batch:
\* the coroutine sleeps while paused and not cancelled, and otherwise, if
\* cancellation was not requested, records its batch and hands it to the
\* classifier, which sends the tracks with no cache entry.
RunAnalysisSend(i) ==
    /\ analysis_runs[i].pc = "loop"
    /\ analysis_runs[i].start < Len(tracks)
    /\ ~(analysis_state.paused /\ ~analysis_state.cancel_requested)
    /\ ~analysis_state.cancel_requested
    /\ LET start == analysis_runs[i].start
           batch == AnalysisBatch(start)
           part == AnthropicPartition(suggestion_cache, cache_entries,
                       PERSISTENT_CACHE_ENABLED, Namespace(provider), batch)
       IN  /\ analysis_state' = [analysis_state EXCEPT
                 !.active_batch =
                     ((start - resume_index) \div PRE_ANALYSIS_BATCH_SIZE)
                     + 1,
                 !.current_ids = [k \in 1..Len(batch) |-> batch[k].id],
                 !.next_index =
                     IF start + PRE_ANALYSIS_BATCH_SIZE < Len(tracks)
                     THEN start + PRE_ANALYSIS_BATCH_SIZE ELSE Len(tracks)]
           /\ suggestion_cache' = part.cache
           /\ analysis_runs' = [analysis_runs EXCEPT
                 ![i].pc = "waiting",
                 ![i].uncached = part.uncached,
                 ![i].sent_after_cancel = @ \/ analysis_runs[i].cancelled]
    /\ UNCHANGED <<cache_entries, cache_file>>
    /\ PageOnly

\* _run_analysis from the return of classify_batch to the top of the loop,
\* or through its except clause when the call raised.
RunAnalysisReturn(i, response) ==
    /\ analysis_runs[i].pc = "waiting"
    /\ LET start == analysis_runs[i].start
           batch == AnalysisBatch(start)
           out == IF analysis_runs[i].uncached = <<>>
                  THEN [cache |-> suggestion_cache,
                        entries |-> cache_entries, file |-> cache_file,
                        raised |-> FALSE]
                  ELSE AnthropicAfterAnswer(suggestion_cache, cache_entries,
                           cache_file, PERSISTENT_CACHE_ENABLED,
                           Namespace(provider), analysis_runs[i].uncached,
                           response)
       IN  /\ suggestion_cache' = out.cache
           /\ cache_entries' = out.entries
           /\ cache_file' = out.file
           /\ IF out.raised
              THEN /\ analysis_state' = [analysis_state EXCEPT
                         !.running = FALSE, !.completed = FALSE]
                   /\ analysis_runs' = [analysis_runs EXCEPT
                         ![i].pc = "done", ![i].uncached = <<>>,
                         ![i].left_running = <<analysis_state'.running>>]
              ELSE /\ analysis_state' = [analysis_state EXCEPT
                         !.processed_ids =
                             @ \o [k \in 1..Len(batch) |-> batch[k].id],
                         !.current_ids = <<>>,
                         !.batch_done =
                             ((start - resume_index)
                                  \div PRE_ANALYSIS_BATCH_SIZE) + 1]
                   /\ analysis_runs' = [analysis_runs EXCEPT
                         ![i].pc = "loop", ![i].uncached = <<>>,
                         ![i].start = @ + PRE_ANALYSIS_BATCH_SIZE,
                         ![i].processed = @ + Len(batch)]
    /\ PageOnly

\* _run_analysis from the end of its loop, by exhaustion or by the break on
\* cancel_requested, to its return or to the sleep before start_session.
RunAnalysisEnd(i) ==
    /\ analysis_runs[i].pc = "loop"
    /\ \/ analysis_runs[i].start >= Len(tracks)
       \/ analysis_state.cancel_requested
    /\ analysis_state' = run_analysis_end(analysis_state, AnalysisTotal)
    /\ analysis_runs' = [analysis_runs EXCEPT
          ![i].pc = IF analysis_state'.completed THEN "sleep" ELSE "done",
          ![i].left_running = <<analysis_state'.running>>]
    /\ UNCHANGED <<suggestion_cache, cache_entries, cache_file>>
    /\ PageOnly

\* _run_analysis after its sleep: start_session(audit), the radio group
\* being on audit or on standard.  A new synchronizer and a new
\* ClassifyView are built; of config.save nothing is kept.
RunAnalysisOpen(i, audit) ==
    /\ analysis_runs[i].pc = "sleep"
    /\ analysis_runs' = [analysis_runs EXCEPT
          ![i].pc = "done", ![i].opened = TRUE]
    /\ audit_mode' = audit
    /\ playlist_cache' = [k \in ThemeKeys |-> 0]
    /\ added' = <<>>
    /\ removed' = <<>>
    /\ port_calls' = Append(port_calls, PortCall("start_session", "", 0, <<>>))
    /\ screen' = "classify"
    /\ LET s == ResumeSessionUseCase_execute(progress_file, tracks)
       IN  /\ session' = s
           /\ refresh_display(0, s)
           /\ preload_llm(0, s)
    /\ UNCHANGED <<is_compact_layout, analysis_state, suggestion_cache,
                   cache_entries, cache_file>>
    /\ AnalysisUnchanged

NextAnalysis ==
    \/ OnStartAnalysis
    \/ OnPauseAnalysis
    \/ OnCancelAnalysis
    \/ \E i \in 1..Len(analysis_runs) : RunAnalysisSend(i)
    \/ \E i \in 1..Len(analysis_runs) :
          \E response \in AnswersFor(analysis_runs[i].uncached) :
             RunAnalysisReturn(i, response)
    \/ \E i \in 1..Len(analysis_runs) : RunAnalysisEnd(i)
    \/ \E i \in 1..Len(analysis_runs), audit \in BOOLEAN :
          RunAnalysisOpen(i, audit)

\* A step of a coroutine running _run_analysis.
RunAnalysisStep ==
    \/ \E i \in 1..Len(analysis_runs) : RunAnalysisSend(i)
    \/ \E i \in 1..Len(analysis_runs) :
          \E response \in AnswersFor(analysis_runs[i].uncached) :
             RunAnalysisReturn(i, response)
    \/ \E i \in 1..Len(analysis_runs) : RunAnalysisEnd(i)
    \/ \E i \in 1..Len(analysis_runs), audit \in BOOLEAN :
          RunAnalysisOpen(i, audit)

\* The event loop runs a coroutine that can take a step.
SpecAnalysis ==
    InitAnalysis /\ [][NextAnalysis]_vars /\ WF_vars(RunAnalysisStep)

\* ---------------------------------------------------------------- claims
\* The most recent call and the one before it.
Last == hist[Len(hist)]
Prev == hist[Len(hist) - 1]

Ops(h) == {h[i].op : i \in 1..Len(h)}

\* Number of decide and skip calls made.
NDecideSkip == Cardinality({i \in 1..Len(hist) : hist[i].op \in {"decide", "skip"}})

\* The decide call c was made on a track that had no Decision yet.
OnUndecidedTrack(c) == decision_for(c.before, c.track_id) = 0

\* The progress file holds exactly the session s.
FileHolds(file, s) ==
    /\ file # <<>>
    /\ file[1].current_index = s.current_index
    /\ file[1].track_ids = s.track_ids
    /\ Len(file[1].decisions) = Len(s.decisions)
    /\ \A i \in 1..Len(s.decisions) :
          /\ file[1].decisions[i].track_id = s.decisions[i].track_id
          /\ file[1].decisions[i].track_name = s.decisions[i].track_name
          /\ file[1].decisions[i].artist = s.decisions[i].artist
          /\ file[1].decisions[i].themes = s.decisions[i].themes
          /\ file[1].decisions[i].skipped = s.decisions[i].skipped

\* C1: in every state reached from a fresh session by decide, skip and undo
\* calls, current_index equals len(decisions).
C1_IndexEqualsDecisions ==
    session.current_index = Len(session.decisions)

\* A successful undo has followed decide and skip calls and left decisions.
C1_Witness ==
    /\ {"decide", "skip", "undo"} \subseteq Ops(hist)
    /\ \E i \in 1..Len(hist) : hist[i].op = "undo" /\ hist[i].result # <<>>
    /\ session.decisions # <<>>

\* C2 as claimed: after N decide/skip calls without an undo on a fresh
\* session, current_index = N = len(decisions).
C2_AsClaimed ==
    "undo" \notin Ops(hist) =>
        /\ session.current_index = NDecideSkip
        /\ Len(session.decisions) = NDecideSkip

\* C2, amended: after N decide/skip calls without an undo on a fresh session,
\* every decide being made on a track that has no Decision yet,
\* current_index = N = len(decisions).
C2_Amended ==
    (/\ "undo" \notin Ops(hist)
     /\ \A i \in 1..Len(hist) :
           hist[i].op = "decide" => OnUndecidedTrack(hist[i])) =>
        /\ session.current_index = NDecideSkip
        /\ Len(session.decisions) = NDecideSkip

\* Three calls without an undo, decides and skips, a skip repeated on a track
\* that already has a Decision.
C2_Witness ==
    /\ "undo" \notin Ops(hist)
    /\ {"decide", "skip"} \subseteq Ops(hist)
    /\ \A i \in 1..Len(hist) :
          hist[i].op = "decide" => OnUndecidedTrack(hist[i])
    /\ \E i \in 1..Len(hist) :
          hist[i].op = "skip" /\ ~OnUndecidedTrack(hist[i])
    /\ NDecideSkip >= 3

\* C3: decide on a track that has no Decision yet appends
\* Decision(track_id, track_name, artist, [theme_key], skipped=False),
\* advances current_index by one, starts exactly one add_track(theme_key,
\* track.id) thread and saves the session to the progress file.
C3_DecideOnUndecidedTrack ==
    (Len(hist) > 0 /\ Last.op = "decide" /\ OnUndecidedTrack(Last)) =>
        LET track == Track(Last.track_id)
            d == [track_id |-> track.id, track_name |-> track.name,
                  artist |-> track.artist, themes |-> <<Last.theme_key>>,
                  skipped |-> FALSE]
        IN  /\ session.decisions = Append(Last.before.decisions, d)
            /\ session.current_index = Last.before.current_index + 1
            /\ session.track_ids = Last.before.track_ids
            /\ Last.result = <<d>>
            /\ Last.started = <<[target |-> "add_track",
                                 theme_key |-> Last.theme_key,
                                 track_id |-> track.id]>>
            /\ Len(threads) = Last.threads_before + 1
            /\ threads[Len(threads)] = Last.started[1]
            /\ FileHolds(progress_file, session)

\* A decide on an undecided track made while other decisions exist.
C3_Witness ==
    /\ Len(hist) > 1 /\ Last.op = "decide" /\ OnUndecidedTrack(Last)
    /\ Last.before.decisions # <<>>

\* C4: skip appends a Decision with skipped=True and no themes, advances
\* current_index by one, saves the session and starts no playlist thread.
C4_Skip ==
    (Len(hist) > 0 /\ Last.op = "skip") =>
        LET track == Track(Last.track_id)
            d == [track_id |-> track.id, track_name |-> track.name,
                  artist |-> track.artist, themes |-> <<>>, skipped |-> TRUE]
        IN  /\ session.decisions = Append(Last.before.decisions, d)
            /\ session.current_index = Last.before.current_index + 1
            /\ session.track_ids = Last.before.track_ids
            /\ Last.result = <<d>>
            /\ Last.started = <<>>
            /\ Len(threads) = Last.threads_before
            /\ FileHolds(progress_file, session)

\* A skip made after a decide, so that playlist threads exist already.
C4_Witness ==
    /\ Len(hist) > 1 /\ Last.op = "skip"
    /\ threads # <<>>

\* C5 as claimed: after any decide(theme) on a track, a directly following
\* undo starts exactly one remove_track(theme, track_id) and restores
\* current_index to its value before the decide.
C5_AsClaimed ==
    (Len(hist) > 1 /\ Last.op = "undo" /\ Prev.op = "decide") =>
        /\ Last.started = <<[target |-> "remove_track",
                             theme_key |-> Prev.theme_key,
                             track_id |-> Prev.track_id]>>
        /\ Len(threads) = Last.threads_before + 1
        /\ session.current_index = Prev.before.current_index

\* C5, amended: after a decide(theme) on a track that had no Decision yet, a
\* directly following undo starts exactly one remove_track(theme, track_id)
\* and restores current_index to its value before the decide.
C5_Amended ==
    (/\ Len(hist) > 1 /\ Last.op = "undo" /\ Prev.op = "decide"
     /\ OnUndecidedTrack(Prev)) =>
        /\ Last.started = <<[target |-> "remove_track",
                             theme_key |-> Prev.theme_key,
                             track_id |-> Prev.track_id]>>
        /\ Len(threads) = Last.threads_before + 1
        /\ threads[Len(threads)] = Last.started[1]
        /\ threads[Len(threads) - 1] =
              [target |-> "add_track", theme_key |-> Prev.theme_key,
               track_id |-> Prev.track_id]
        /\ session.current_index = Prev.before.current_index

\* An undo directly after a decide on an undecided track, with an earlier
\* decision left in place.
C5_Witness ==
    /\ Len(hist) > 2 /\ Last.op = "undo" /\ Prev.op = "decide"
    /\ OnUndecidedTrack(Prev)
    /\ session.decisions # <<>>

\* C6: an undo that pops a skipped Decision starts no playlist thread.
C6_UndoOfSkippedStartsNoThread ==
    (/\ Len(hist) > 0 /\ Last.op = "undo" /\ Last.result # <<>>
     /\ Last.result[1].skipped) =>
        /\ Last.started = <<>>
        /\ Len(threads) = Last.threads_before

\* C7: undo on a session with no decisions returns None and changes neither
\* current_index, decisions, the progress file nor the playlist threads.
C7_UndoOnEmpty ==
    (Len(hist) > 0 /\ Last.op = "undo" /\ Last.before.decisions = <<>>) =>
        /\ Last.result = <<>>
        /\ session = Last.before
        /\ progress_file = Last.file_before
        /\ Last.started = <<>>
        /\ Len(threads) = Last.threads_before

\* An undo on an emptied session whose progress file exists, and one on a
\* session never saved.
C7_Witness ==
    /\ Len(hist) > 2 /\ Last.op = "undo" /\ Last.before.decisions = <<>>
    /\ Last.file_before # <<>>

\* C9: progress is written through: after any decide, skip and undo calls,
\* resume_or_start returns the current_index, track_ids and decisions of the
\* session in memory; with nothing persisted it returns current_index 0,
\* track_ids in fetch order and no decisions.
C9_ResumeReturnsSession ==
    LET resumed == ResumeSessionUseCase_execute(progress_file, tracks)
    IN  /\ resumed.current_index = session.current_index
        /\ resumed.decisions = session.decisions
        /\ resumed.track_ids = session.track_ids
        /\ progress_file = <<>> =>
              /\ resumed.current_index = 0
              /\ resumed.decisions = <<>>
              /\ resumed.track_ids = [i \in 1..Len(tracks) |-> tracks[i].id]
        /\ (Len(hist) > 0 /\ Last.op = "resume") => session = Last.before

\* A resume after decide, skip and a successful undo, with decisions kept.
C9_Witness ==
    /\ Len(hist) > 3 /\ Last.op = "resume"
    /\ {"decide", "undo"} \subseteq Ops(hist)
    /\ \E i \in 1..Len(hist) : hist[i].op = "undo" /\ hist[i].result # <<>>
    /\ session.decisions # <<>>
    /\ progress_file # <<>>
\* The inputs of the calls made, in order.
Inputs == [i \in 1..Len(hist) |-> <<hist[i].op, hist[i].track_id, hist[i].theme_key>>]

\* The journey decide(t1, a), decide(t2, b), undo, skip(t2), decide(t3, b)
\* has been made and ended as stated.
C8_Journey ==
    Inputs = << <<"decide", 1, "ambiance">>, <<"decide", 2, "lets_dance">>,
                <<"undo", 0, "">>, <<"skip", 2, "">>,
                <<"decide", 3, "lets_dance">> >> =>
        /\ session.current_index = 3
        /\ Len(session.decisions) = 3
        /\ session.decisions[1].track_id = 1
        /\ session.decisions[1].themes = <<"ambiance">>
        /\ ~session.decisions[1].skipped
        /\ session.decisions[2].track_id = 2
        /\ session.decisions[2].themes = <<>>
        /\ session.decisions[2].skipped
        /\ session.decisions[3].track_id = 3
        /\ session.decisions[3].themes = <<"lets_dance">>
        /\ ~session.decisions[3].skipped

\* C8: after an undo, resolving the same track again (by decide or skip)
\* leaves in decisions only the new outcome for that track, with all earlier
\* decisions unchanged; the journey decide(t1, a), decide(t2, b), undo,
\* skip(t2), decide(t3, b) ends with [t1:[a], t2:skipped, t3:[b]] and
\* current_index 3.
C8_ResolveAgainAfterUndo ==
    /\ (/\ Len(hist) > 1 /\ Prev.op = "undo" /\ Prev.result # <<>>
        /\ Last.op \in {"decide", "skip"}
        /\ Last.track_id = Prev.result[1].track_id) =>
          LET before == Last.before.decisions
              others(ds) == SelectSeq(ds, LAMBDA d : d.track_id # Last.track_id)
              mine == SelectSeq(session.decisions,
                                LAMBDA d : d.track_id = Last.track_id)
          IN  /\ Len(mine) = 1
              /\ mine[1].skipped = (Last.op = "skip")
              /\ mine[1].themes =
                    (IF Last.op = "skip" THEN <<>> ELSE <<Last.theme_key>>)
              /\ others(session.decisions) = others(before)
              /\ SubSeq(session.decisions, 1, Len(before)) = before
    /\ C8_Journey

\* C10: the automatic export on completion is performed exactly once, when
\* the cursor first reaches the end of the track list, whatever decide, skip,
\* undo and resize events follow.
C10_AutoExportExactlyOnce ==
    /\ finish_count <= 1
    /\ session.current_index >= Len(tracks) => finish_count = 1

\* -------------------------------------------- claims on the synchronizers
\* The most recent call on a synchronizer and the one before it.
PLast == port_calls[Len(port_calls)]
PPrev == port_calls[Len(port_calls) - 1]

\* Number of requests of this kind among calls.
Requests(calls, kind) ==
    Cardinality({i \in 1..Len(calls) : calls[i].call = kind})

\* Number of times track_id occurs in the first remote playlist named after
\* the theme (0 when there is none).
Occurrences(playlists, theme_key, track_id) ==
    LET named == {i \in 1..Len(playlists) :
                     playlists[i].name = PlaylistName(theme_key)}
        first == CHOOSE i \in named : \A j \in named : i <= j
    IN  IF named = {} THEN 0
        ELSE Cardinality({k \in 1..Len(playlists[first].items) :
                             playlists[first].items[k] = track_id})

\* The call at position i was made on a SpotifyPlaylistAdapter that had
\* resolved the playlist of theme_key: an add_track for the theme was made on
\* the same adapter before it.
ResolvedByAdapter(i, theme_key) ==
    \E j \in 1..(i - 1) :
        /\ port_calls[j].op = "add_track"
        /\ ~port_calls[j].audit_mode
        /\ port_calls[j].theme_key = theme_key
        /\ \A k \in (j + 1)..(i - 1) : port_calls[k].op # "start_session"

\* The playlist of theme_key was resolved in this process before the call at
\* position i, by whichever adapter.
ResolvedInProcess(i, theme_key) ==
    \E j \in 1..(i - 1) :
        /\ port_calls[j].op = "add_track"
        /\ ~port_calls[j].audit_mode
        /\ port_calls[j].theme_key = theme_key

\* C11: add_track called twice in a row with the same arguments on the
\* Spotify synchronizer: the second call finds the track by the membership
\* pre-check and makes no remote add, so that for a track that was not in
\* the playlist before the first call exactly one remote add call is made and
\* the track is in the playlist once.
C11_AddTrackTwiceAddsOnce ==
    (/\ Len(port_calls) > 1
     /\ PLast.op = "add_track" /\ PPrev.op = "add_track"
     /\ ~PLast.audit_mode /\ ~PPrev.audit_mode
     /\ PLast.theme_key = PPrev.theme_key
     /\ PLast.track_id = PPrev.track_id) =>
        LET was == Occurrences(PPrev.playlists_before, PPrev.theme_key,
                               PPrev.track_id)
        IN  /\ Requests(PLast.calls, "playlist_add_items") = 0
            /\ Requests(PLast.calls, "playlist_items") >= 1
            /\ Requests(PLast.calls, "user_playlist_create") = 0
            /\ remote_playlists = PLast.playlists_before
            /\ was = 0 =>
                  /\ Requests(PPrev.calls \o PLast.calls,
                              "playlist_add_items") = 1
                  /\ Occurrences(remote_playlists, PLast.theme_key,
                                 PLast.track_id) = 1
            /\ was > 0 =>
                  /\ Requests(PPrev.calls, "playlist_add_items") = 0
                  /\ remote_playlists = PPrev.playlists_before

\* add_track made twice in a row for a track that was not in the theme's
\* playlist, the playlist existing already and holding another track.
C11_Witness ==
    /\ Len(port_calls) > 1
    /\ PLast.op = "add_track" /\ PPrev.op = "add_track"
    /\ ~PLast.audit_mode /\ ~PPrev.audit_mode
    /\ PLast.theme_key = PPrev.theme_key
    /\ PLast.track_id = PPrev.track_id
    /\ Occurrences(PPrev.playlists_before, PPrev.theme_key,
                   PPrev.track_id) = 0
    /\ Occurrences(PPrev.playlists_before, PPrev.theme_key,
                   3 - PPrev.track_id) = 1

C13_DryRunSameContracts ==
    /\ \A i, j \in 1..Len(added) : added[i] = added[j] => i = j
    /\ (/\ Len(port_calls) > 0
        /\ PLast.op = "remove_track" /\ PLast.audit_mode
        /\ \A i \in 1..Len(PLast.added_before) :
              PLast.added_before[i][1] # PLast.theme_key) =>
          removed = PLast.removed_before

\* ------------------------------------------------ claims on the decisions
\* C14: after any sequence of decide, skip and undo calls no two entries of
\* decisions have the same track_id.
C14_OneDecisionPerTrack ==
    \A i, j \in 1..Len(session.decisions) :
        session.decisions[i].track_id = session.decisions[j].track_id => i = j

\* C15: after any sequence of decide, skip and undo calls no Decision has
\* skipped=True together with a non-empty themes list.
C15_ThemesExcludeSkipped ==
    \A i \in 1..Len(session.decisions) :
        ~(session.decisions[i].skipped /\ session.decisions[i].themes # <<>>)

\* ------------------------------------------- claims on the progress file
\* C16: the persisted session is deleted by the Stop & Clear action only: no
\* other user action or code path of the application removes progress.json.
C16_OnlyStopAndClearDeletes ==
    progress_removed_by \subseteq {"_stop"}

\* C17: save followed by load yields a session equal field for field to the
\* one saved, whatever its current_index, track_ids and decisions (skipped,
\* one theme, several themes); load returns None when nothing was saved or
\* after clear.
C17_SaveLoadRoundTrip ==
    (store_ops # <<>> /\ store_ops[Len(store_ops)] = "load") =>
        IF saved = <<>>
        THEN loaded = <<>>
        ELSE /\ Len(loaded) = 1
             /\ loaded[1].current_index = saved[1].current_index
             /\ loaded[1].track_ids = saved[1].track_ids
             /\ Len(loaded[1].decisions) = Len(saved[1].decisions)
             /\ \A i \in 1..Len(saved[1].decisions) :
                   /\ loaded[1].decisions[i].track_id =
                         saved[1].decisions[i].track_id
                   /\ loaded[1].decisions[i].track_name =
                         saved[1].decisions[i].track_name
                   /\ loaded[1].decisions[i].artist =
                         saved[1].decisions[i].artist
                   /\ loaded[1].decisions[i].themes =
                         saved[1].decisions[i].themes
                   /\ loaded[1].decisions[i].skipped =
                         saved[1].decisions[i].skipped

\* A load directly after the save of a session that holds a skipped, a
\* one-theme and a several-theme Decision and whose cursor is elsewhere.
C17_Witness ==
    /\ store_ops = <<"save", "load">>
    /\ loaded # <<>>
    /\ Len(session.decisions) = 3
    /\ \E i \in 1..3 : session.decisions[i].skipped
    /\ \E i \in 1..3 : Len(session.decisions[i].themes) = 1
    /\ \E i \in 1..3 : Len(session.decisions[i].themes) = 2
    /\ session.current_index # Len(session.decisions)

\* ------------------------------------------ claims on the classifier gateway
\* The most recent classify_batch call.
BLast == batch_calls[Len(batch_calls)]

\* A classify_batch call has just returned: the adapter that made the most
\* recent call is the one of the current run.
JustClassified == Len(batch_calls) > 0 /\ BLast.run = run

\* The ids of a sequence of tracks.
Ids(seq) == {seq[i].id : i \in 1..Len(seq)}

\* What the persistent cache of the adapter that made call c held for track
\* t before the call (<<>> when it held nothing; the OpenAI adapter keeps no
\* persistent cache).
PersistentEntry(c, t) ==
    LET key == build_track_cache_key(Namespace(c.provider), t)
    IN  IF key \in DOMAIN c.entries_before THEN c.entries_before[key]
        ELSE <<>>

\* The tracks of the batch of call c that had neither an in-memory cache
\* entry nor a non-empty persistent-cache entry before the call.
Unknown(c) ==
    SelectSeq(c.batch, LAMBDA t : /\ t.id \notin DOMAIN c.cache_before
                                  /\ PersistentEntry(c, t) = <<>>)

\* Track id t was sent by call c and the answer, which was parsed, held no
\* suggestion for it.
AbsentFromResponse(c, t) ==
    /\ t \in Ids(c.sent)
    /\ ~c.raised
    /\ \A k \in 1..Len(c.response.items) : c.response.items[k].track_id # t

\* The LLM answered call c with something that is not the JSON array of
\* suggestion objects asked for.
Malformed(c) ==
    c.sent # <<>> /\ c.response.kind \in {"not_json", "json_object"}

\* C18: classify_batch sends to the LLM exactly the tracks of the batch that
\* have neither an in-memory cache entry nor a non-empty persistent-cache
\* entry; a persistent hit fills the in-memory cache without a request, and
\* no request is made when every track of the batch is known.
C18_SendsOnlyUnknownTracks ==
    /\ \A c \in Range(batch_calls) :
          /\ c.sent = Unknown(c)
          /\ Unknown(c) = <<>> => (c.response.kind = "none" /\ ~c.raised)
    /\ JustClassified =>
          \A i \in 1..Len(BLast.batch) :
             LET t == BLast.batch[i]
             IN  (/\ t.id \notin DOMAIN BLast.cache_before
                  /\ PersistentEntry(BLast, t) # <<>>) =>
                     /\ t.id \in DOMAIN suggestion_cache
                     /\ suggestion_cache[t.id] = PersistentEntry(BLast, t)
                     /\ t.id \notin Ids(BLast.sent)

\* In a later run a batch of two tracks is classified: one is found in the
\* persistent cache, only the other is sent.
C18_Witness ==
    /\ Len(batch_calls) > 1
    /\ Len(BLast.batch) = 2
    /\ Len(BLast.sent) = 1
    /\ BLast.cache_before = <<>>
    /\ \E i \in 1..2 : PersistentEntry(BLast, BLast.batch[i]) # <<>>

\* C19: for both provider adapters, a track that was sent to the LLM and is
\* absent from the answer gets an empty suggestion list in the in-memory
\* cache and is not sent to the LLM again by a later classify_batch of the
\* same process.
C19_AbsentTrackNeverSentAgain ==
    /\ JustClassified =>
          \A t \in Ids(BLast.sent) :
              AbsentFromResponse(BLast, t) =>
                  /\ t \in DOMAIN suggestion_cache
                  /\ suggestion_cache[t] = <<>>
    /\ \A i, j \in 1..Len(batch_calls) :
          (i < j /\ batch_calls[i].run = batch_calls[j].run) =>
              \A t \in Ids(batch_calls[i].sent) :
                  AbsentFromResponse(batch_calls[i], t) =>
                      t \notin Ids(batch_calls[j].sent)

\* C20: a malformed LLM answer fails soft: classify_batch does not raise and
\* returns no suggestion for the tracks it sent, writes no entry for them to
\* the persistent cache, and the first classify_batch for such a track in the
\* next run sends it to the LLM again.
C20_MalformedResponseFailsSoft ==
    /\ (JustClassified /\ Malformed(BLast)) =>
          /\ ~BLast.raised
          /\ \A k \in 1..Len(BLast.result) :
                BLast.result[k].track_id \notin Ids(BLast.sent)
          /\ cache_entries = BLast.entries_before
          /\ cache_file = BLast.file_before
    /\ \A i, j \in 1..Len(batch_calls) :
          (/\ i < j
           /\ Malformed(batch_calls[i])
           /\ batch_calls[j].run = batch_calls[i].run + 1
           /\ \A k \in (i + 1)..(j - 1) :
                 batch_calls[k].run = batch_calls[i].run) =>
              \A t \in Ids(batch_calls[i].sent) :
                  t \in Ids(batch_calls[j].batch) =>
                      t \in Ids(batch_calls[j].sent)

\* The dict a sequence of items stands for.
DictOf(items) == Range(items)

\* The metadata fields that enter the key.
KeyMetadataFields ==
    {"id", "name", "artist", "album", "release_date", "duration_ms",
     "explicit", "popularity"}

\* The two argument records agree on provider, model, theme dict and on
\* every metadata field of the track.
SameKeyInputs(a, b) ==
    /\ a.provider = b.provider
    /\ a.model = b.model
    /\ DictOf(a.themes) = DictOf(b.themes)
    /\ \A f \in KeyMetadataFields : a.track[f] = b.track[f]

\* C21: building the key twice from equal provider, model, theme dict and
\* track metadata gives the same key, and after a change of one metadata
\* field, of the model, of the provider or of the theme dict the key is a
\* different one.
C21_KeyDeterminism ==
    \A i, j \in 1..Len(key_calls) :
        SameKeyInputs(key_calls[i].args, key_calls[j].args)
            <=> key_calls[i].key = key_calls[j].key

\* Reached: two keys built from tracks that differ in duration_ms only, and
\* two keys built from the same themes given in another order.
C21_Witness ==
    /\ Len(key_calls) = 3
    /\ key_calls[1].args.track.duration_ms
         # key_calls[2].args.track.duration_ms
    /\ key_calls[1].key # key_calls[2].key
    /\ key_calls[2].args.themes # key_calls[3].args.themes
    /\ DictOf(key_calls[2].args.themes) = DictOf(key_calls[3].args.themes)
    /\ key_calls[2].key = key_calls[3].key

\* C22: at every point of the saves made by the threads, a crash included,
\* the file at the cache path holds the complete content it had before or a
\* complete payload serialized by a save, never a truncated one.
C22_CacheFileAlwaysComplete ==
    /\ cache_file \in save_contents
    /\ Len(cache_file) < 2

\* The file is not one the cache wrote: damaged as a whole, or holding an
\* item whose confidence is not a number.
Corrupt(file) ==
    \/ Len(file) = 2
    \/ /\ Len(file) = 1
       /\ \E k \in DOMAIN file[1] : \E i \in 1..Len(file[1][k]) :
             file[1][k][i].confidence = NotANumber

\* C23: a cache constructed over a corrupt or unreadable file does not
\* raise, and every get on it returns the empty list without raising.
C23_CorruptFileTreatedAsEmpty ==
    \A i \in 1..Len(cache_ops) :
        (cache_ops[i].op = "construct" /\ Corrupt(cache_ops[i].file_before))
            => /\ ~cache_ops[i].raised
               /\ (i < Len(cache_ops) /\ cache_ops[i + 1].op = "get")
                      => /\ ~cache_ops[i + 1].raised
                         /\ cache_ops[i + 1].result = <<>>

\* put_many at i wrote the file, a cache was constructed next and get was
\* called on it.
StoredAndReloaded(i) ==
    /\ i + 2 <= Len(cache_ops)
    /\ cache_ops[i].op = "put_many" /\ cache_ops[i].wrote
    /\ cache_ops[i + 1].op = "construct"
    /\ cache_ops[i + 2].op = "get"

\* C24: after put_many has stored a non-empty list under a key, a cache
\* constructed over the same file returns an equal list for that key, and
\* returns for every other key what the storing cache held for it.
C24_PersistentRoundTrip ==
    \A i \in 1..Len(cache_ops) :
        StoredAndReloaded(i) =>
            LET put == cache_ops[i]
                get == cache_ops[i + 2]
                key == SaveKey(get.key)
            IN  /\ (key \in DOMAIN put.values /\ put.values[key] # <<>>)
                       => /\ ~get.raised
                          /\ get.result = put.values[key]
                /\ (/\ key \notin DOMAIN put.values \/ put.values[key] = <<>>
                    /\ ~PersistentSuggestionCache_get_raises(
                            put.entries_before, key))
                       => /\ ~get.raised
                          /\ get.result =
                                 PersistentSuggestionCache_get(
                                     put.entries_before, key)

\* Reached: a list of two suggestions stored under the second key while the
\* first key held an entry, then read back, and the first key read back.
C24_Witness ==
    /\ Len(cache_ops) = 4
    /\ StoredAndReloaded(2)
    /\ SaveKey(2) \in DOMAIN cache_ops[2].values
    /\ Len(cache_ops[2].values[SaveKey(2)]) = 2
    /\ SaveKey(1) \in DOMAIN cache_ops[2].entries_before
    /\ cache_ops[4].key = 1
    /\ cache_ops[4].result # <<>>

\* C25: once _preload_llm has bumped the job counter, no job of an earlier
\* generation starts a classify_batch chunk or writes _analysis_running or
\* _analysis_error.
C25_StaleJobsDoNothing == stale_steps = {}

\* The use-case call that started thread i.
StartedBy(i) ==
    CHOOSE c \in 1..Len(hist) :
        /\ hist[c].threads_before < i
        /\ i <= hist[c].threads_before + Len(hist[c].started)

\* C26: a background add_track or remove_track call that fails leaves the
\* session in memory and the progress file as they were, the use case has
\* returned before the call is made, and the call is made once: the thread
\* stops at the request that failed, and no other thread is started for it.
C26_FailedThreadChangesNothing ==
    /\ \A k \in 1..Len(thread_runs) :
          LET r == thread_runs[k]
          IN  /\ StartedBy(r.thread) <= r.hist_len
              /\ r.raised =>
                    /\ r.session_after = r.session_before
                    /\ r.file_after = r.file_before
                    /\ r.playlists_after = r.playlists_before
                    /\ Len(r.calls) = 1
    /\ threads = Flatten([c \in 1..Len(hist) |-> hist[c].started])
    /\ \A j, k \in 1..Len(thread_runs) :
          thread_runs[j].thread = thread_runs[k].thread => j = k

\* Reached: the add_track thread of the second decide has failed and the
\* Decision is still recorded and saved with both themes; then a
\* remove_track thread of the undo has failed and the Decision is still gone.
C26_Witness ==
    /\ Len(hist) = 3 /\ Len(thread_runs) = 3
    /\ hist[1].op = "decide" /\ hist[2].op = "decide" /\ hist[3].op = "undo"
    /\ thread_runs[1].thread = 1 /\ ~thread_runs[1].raised
    /\ thread_runs[2].thread = 2 /\ thread_runs[2].raised
    /\ thread_runs[2].hist_len = 2
    /\ Len(thread_runs[2].session_after.decisions[1].themes) = 2
    /\ FileHolds(thread_runs[2].file_after, thread_runs[2].session_after)
    /\ thread_runs[3].thread = 3 /\ thread_runs[3].raised
    /\ threads[3].target = "remove_track"
    /\ session.decisions = <<>>
    /\ FileHolds(progress_file, session)

\* C30: after decide(theme) on a track and the undo of that Decision, once
\* the add_track and the remove_track threads have both run without
\* failing, in either order, the track is not in the theme's playlist.
C30_UndoReversesAdd ==
    (/\ Len(hist) = 2
     /\ hist[1].op = "decide" /\ hist[2].op = "undo"
     /\ Len(thread_runs) = 2
     /\ \A k \in 1..2 : ~thread_runs[k].raised)
        => Occurrences(remote_playlists, hist[1].theme_key,
                       hist[1].track_id) = 0

\* The last save made before call i, 0 if there is none.
LastSaveBefore(i) ==
    LET saves == {j \in 1..(i - 1) : config_ops[j].op = "save"}
    IN  IF saves = {} THEN 0
        ELSE CHOOSE j \in saves : \A k \in saves : k <= j

\* C27: whatever the state of the keychain at each save, a load made with
\* the keychain at hand returns for both secret fields the values of the
\* most recent save; and a save writes a secret to the file as "" when the
\* keychain accepted it, in plaintext only when it refused it.
C27_LoadReturnsLastSavedSecrets ==
    \A i \in 1..Len(config_ops) :
        /\ (/\ config_ops[i].op = "load"
            /\ config_ops[i].available = "ok"
            /\ LastSaveBefore(i) # 0)
               => \A field \in SECRET_FIELDS :
                     config_ops[i].result[field]
                         = config_ops[LastSaveBefore(i)].cfg[field]
        /\ config_ops[i].op = "save"
               => \A field \in SECRET_FIELDS :
                     config_ops[i].file_after[1][field] =
                         IF config_ops[i].stored[field] THEN ""
                         ELSE config_ops[i].cfg[field]

\* The session as the i-th use-case call left it.
SessionAfter(i) == IF i = Len(hist) THEN session ELSE hist[i + 1].before

\* The decide calls made so far.
DecideCalls == {i \in 1..Len(hist) : hist[i].op = "decide"}

\* The i-th call left the number of decisions and the cursor as they were.
NothingAppended(i) ==
    /\ Len(SessionAfter(i).decisions) = Len(hist[i].before.decisions)
    /\ SessionAfter(i).current_index = hist[i].before.current_index

\* The i-th call appended a new Decision holding only its theme_key and
\* advanced the cursor by one.
NewDecisionAppended(i) ==
    LET before == hist[i].before
        after == SessionAfter(i)
        n == Len(after.decisions)
    IN  /\ n = Len(before.decisions) + 1
        /\ after.current_index = before.current_index + 1
        /\ SubSeq(after.decisions, 1, n - 1) = before.decisions
        /\ after.decisions[n].track_id = hist[i].track_id
        /\ after.decisions[n].themes = <<hist[i].theme_key>>

\* The i-th call left theme_key in the first Decision of its track and every
\* other Decision as it was.
MergedIntoExisting(i) ==
    LET before == hist[i].before
        after == SessionAfter(i)
        k == decision_for(before, hist[i].track_id)
    IN  /\ NothingAppended(i)
        /\ hist[i].theme_key \in Range(after.decisions[k].themes)
        /\ \A j \in 1..Len(before.decisions) :
              j # k => after.decisions[j] = before.decisions[j]

\* The last entry of decisions before the i-th call is a Decision for the
\* call's track.
LatestIsForTrack(i) ==
    LET d == hist[i].before.decisions
    IN  Len(d) > 0 /\ d[Len(d)].track_id = hist[i].track_id

\* C28 as claimed: decide merges theme_key into an existing Decision only
\* when a Decision for track.id is the most recent entry of decisions; in
\* every other case it appends a new Decision and increments current_index.
C28_AsClaimed ==
    \A i \in DecideCalls :
        IF LatestIsForTrack(i) THEN NothingAppended(i)
        ELSE NewDecisionAppended(i)

\* C28 as amended: decide merges theme_key into the existing Decision
\* whenever a Decision for track.id exists anywhere in decisions, the most
\* recent entry or not; only when the track has no Decision does it append a
\* new Decision and increment current_index.
C28_Amended ==
    \A i \in DecideCalls :
        IF decision_for(hist[i].before, hist[i].track_id) # 0
        THEN MergedIntoExisting(i)
        ELSE NewDecisionAppended(i)

\* A decide has merged a new theme into a Decision that was not the most
\* recent entry, and another decide has appended a new Decision.
C28_Witness ==
    /\ \E i \in DecideCalls :
          LET before == hist[i].before
              k == decision_for(before, hist[i].track_id)
          IN  /\ k # 0
              /\ ~LatestIsForTrack(i)
              /\ hist[i].theme_key \notin Range(before.decisions[k].themes)
              /\ MergedIntoExisting(i)
    /\ \E i \in DecideCalls :
          /\ decision_for(hist[i].before, hist[i].track_id) = 0
          /\ NewDecisionAppended(i)

\* The themes of the track's first Decision before and after the i-th call.
ThemesBefore(i) ==
    hist[i].before.decisions[
        decision_for(hist[i].before, hist[i].track_id)].themes
ThemesAfter(i) ==
    SessionAfter(i).decisions[
        decision_for(hist[i].before, hist[i].track_id)].themes

\* The decide calls made on a track that already had a Decision.
MergingCalls ==
    {i \in DecideCalls : decision_for(hist[i].before, hist[i].track_id) # 0}

\* Number of times key occurs in the sequence themes.
TimesIn(themes, key) ==
    Cardinality({j \in 1..Len(themes) : themes[j] = key})

\* C29 as claimed: a decide for a track that already has a Decision appends
\* theme_key to that Decision's themes without deduplication, so a repeated
\* identical theme_key is in themes twice.
C29_AsClaimed ==
    \A i \in MergingCalls :
        ThemesAfter(i) = Append(ThemesBefore(i), hist[i].theme_key)

\* C29 as amended: a decide for a track that already has a Decision appends
\* theme_key to that Decision's themes only when it is not there yet, so a
\* repeated identical theme_key leaves themes as they were, with the key
\* in them once.
C29_Amended ==
    \A i \in MergingCalls :
        /\ ThemesAfter(i) =
              IF hist[i].theme_key \in Range(ThemesBefore(i))
              THEN ThemesBefore(i)
              ELSE Append(ThemesBefore(i), hist[i].theme_key)
        /\ TimesIn(ThemesAfter(i), hist[i].theme_key) = 1

\* The same theme_key has been decided twice on one track, and a second,
\* different theme_key has been added to a Decision.
C29_Witness ==
    /\ \E i \in MergingCalls :
          /\ hist[i].theme_key \in Range(ThemesBefore(i))
          /\ ThemesAfter(i) = ThemesBefore(i)
    /\ \E i \in MergingCalls :
          /\ ThemesBefore(i) # <<>>
          /\ hist[i].theme_key \notin Range(ThemesBefore(i))
          /\ Len(ThemesAfter(i)) = 2

\* ------------------------------- claims on undo after a new session start
\* Before the call at position i this application put track_id into the
\* playlist of theme_key (an add_track that made the remote add) and has not
\* taken it out again since.
AddedByApplication(i, theme_key, track_id) ==
    \E j \in 1..(i - 1) :
        /\ port_calls[j].op = "add_track"
        /\ ~port_calls[j].audit_mode
        /\ port_calls[j].theme_key = theme_key
        /\ port_calls[j].track_id = track_id
        /\ Requests(port_calls[j].calls, "playlist_add_items") = 1
        /\ \A k \in (j + 1)..(i - 1) :
              ~(/\ port_calls[k].op = "remove_track"
                /\ port_calls[k].theme_key = theme_key
                /\ port_calls[k].track_id = track_id
                /\ port_calls[k].calls # <<>>)

\* C31: whenever remove_track on the Spotify synchronizer is a no-op because
\* the theme's playlist is not resolved, this application has not added the
\* track to that theme's playlist, so that nothing is left to remove; also
\* when the add was made before the session was started again.
C31_NoOpRemoveLeavesNothing ==
    \A i \in 1..Len(port_calls) :
        (/\ port_calls[i].op = "remove_track"
         /\ ~port_calls[i].audit_mode
         /\ port_calls[i].calls = <<>>) =>
            ~AddedByApplication(i, port_calls[i].theme_key,
                                port_calls[i].track_id)

\* ------------------------------ claims on the concurrent playlist threads
\* Number of remote playlists that carry the name of the theme's playlist.
NamedAfter(theme_key) ==
    Cardinality({p \in 1..Len(remote_playlists) :
                    remote_playlists[p].name = PlaylistName(theme_key)})

\* C32: create-or-find is idempotent per theme: at most one remote playlist
\* is ever created for a theme, also when several add_track calls for the
\* theme run concurrently in background threads, and none is created when a
\* playlist with the exact name exists remotely already.
C32_OnePlaylistPerTheme ==
    \A theme_key \in ThemeKeys :
        /\ creates[theme_key] <= 1
        /\ NamedAfter(theme_key) > creates[theme_key] =>
              creates[theme_key] = 0

\* Number of times track_id occurs in the remote playlist p.
TimesInPlaylist(p, track_id) ==
    Cardinality({k \in 1..Len(remote_playlists[p].items) :
                    remote_playlists[p].items[k] = track_id})

\* C33: under every interleaving of the add_track and remove_track threads
\* started by a sequence of decide and undo actions, a track never occurs
\* more than once in a theme's remote playlist.
C33_NoDuplicateTrackInPlaylist ==
    \A p \in 1..Len(remote_playlists) :
        \A track \in TrackPool : TimesInPlaylist(p, track.id) <= 1

\* ------------------------------------------- claims on the preload jobs
\* C34: within one process no track is sent to the LLM provider more than
\* once, under every interleaving of the preload jobs started after each
\* decide, skip and undo with the classify_batch calls still in flight.
C34_EachTrackSentAtMostOnce ==
    \A id \in DOMAIN sent_count : sent_count[id] <= 1

\* ------------------------------------------------ claims on the cursor
\* C35: in a view started on a new session or on the session resumed with
\* the same track list and driven by decide, skip and undo, the decisions
\* are the outcomes of the tracks before the cursor, in track order:
\* decisions[i].track_id == tracks[i].id for every i < current_index, and
\* there are current_index decisions.
C35_DecisionsFollowTrackOrder ==
    /\ Len(session.decisions) = session.current_index
    /\ session.current_index <= Len(tracks)
    /\ \A i \in 1..Len(session.decisions) :
          session.decisions[i].track_id = tracks[i].id

\* Two tracks are decided or skipped after an undo took a Decision back.
C35_Witness ==
    /\ session.current_index >= 2
    /\ \E i \in 1..Len(hist) : hist[i].op = "undo" /\ hist[i].result # <<>>
    /\ \E i \in 1..Len(session.decisions) : session.decisions[i].skipped
    /\ \E i \in 1..Len(session.decisions) : ~session.decisions[i].skipped

AllJobsReturned ==
    \A job \in 1..Len(preload_jobs) : preload_jobs[job].pc = "returned"

\* C37: if the user's actions stop and every classifier call returns or
\* raises, every preload thread terminates and _analysis_running eventually
\* becomes False and stays False.
C37_PreloadSettles ==
    <>[](AllJobsReturned /\ ~analysis_running)

\* All threads have returned and the flag is down after the view started a
\* second job while the first was running, one call having raised.
C37_Witness ==
    /\ AllJobsReturned
    /\ ~analysis_running
    /\ Len(preload_jobs) = MaxCallJobs
    /\ stale_steps # {}
    /\ analysis_error # ""

\* --------------------------------- claims on the adapters' in-memory cache
\* C38: for both provider adapters classify_batch never changes the
\* in-memory suggestion list of a track that had a cache entry before the
\* call, whatever track ids the answer of the LLM holds, and it records
\* suggestions only for tracks that were part of the request.
C38_CachedEntriesUntouched ==
    JustClassified =>
        /\ \A t \in DOMAIN BLast.cache_before :
              /\ t \in DOMAIN suggestion_cache
              /\ suggestion_cache[t] = BLast.cache_before[t]
        /\ \A t \in DOMAIN suggestion_cache :
              t \notin DOMAIN BLast.cache_before => t \in Ids(BLast.batch)

\* The coroutines of the pre-analysis page that have run _run_analysis to its
\* end.
AnalysisEnded(i) == analysis_runs[i].pc \in {"sleep", "done"}

\* A coroutine on which cancellation was requested is still in its loop.
\* A coroutine that has ended stays so, and the flag stays set.
CancelledInLoop ==
    \E i \in 1..Len(analysis_runs) :
        analysis_runs[i].cancelled /\ InLoop(i)

\* C39: in the pre-analysis runner, a coroutine sends no batch to the
\* classifier once cancellation has been requested during it; its last step
\* leaves running at False, and a coroutine cancelled, paused or not, does
\* reach its end (from some point on none is cancelled and still in its
\* loop); and qualification is opened only by a coroutine that was not
\* cancelled and whose returned batches hold every track from resume_index
\* on.
C39_CancelStopsTheRun ==
    /\ [](\A i \in 1..Len(analysis_runs) :
             /\ ~analysis_runs[i].sent_after_cancel
             /\ AnalysisEnded(i) =>
                   analysis_runs[i].left_running = <<FALSE>>
             /\ analysis_runs[i].opened =>
                   /\ ~analysis_runs[i].cancelled
                   /\ analysis_runs[i].processed
                          = Len(tracks) - resume_index)
    /\ <>[]~CancelledInLoop

\* A first coroutine was cancelled while paused, with batches still to send,
\* and has ended; a second one has processed every track and opened
\* qualification.
C39_Witness ==
    /\ Len(analysis_runs) = 2
    /\ analysis_runs[1].cancelled
    /\ analysis_runs[1].paused_at_cancel
    /\ analysis_runs[1].pc = "done"
    /\ analysis_runs[1].start < Len(tracks)
    /\ analysis_runs[1].left_running = <<FALSE>>
    /\ analysis_runs[2].opened
    /\ analysis_runs[2].processed = Len(tracks) - resume_index
    /\ ~analysis_state.running
====
